---- MODULE Spec2Model ----
(***************************************************************************)
(* Duplicate detection and resolution of artwork-archive-migrator.         *)
(*                                                                         *)
(* A string is a sequence of characters, a character a one-symbol string   *)
(* (an accented letter is written base+mark, "i+acute").  A ShopifyProduct *)
(* is an object of the heap; a collection is a sequence of object ids, so  *)
(* that an array built by filter() shares its rows with the array it was   *)
(* built from.                                                             *)
(***************************************************************************)
EXTENDS Integers, Sequences, FiniteSets

\* F applied to the value of x: const v = x; return F(v)
With(x, F(_)) == CHOOSE y \in {F(v) : v \in {x}} : TRUE

(***************************************************************************)
(* Characters.                                                             *)
(***************************************************************************)
UpperChars ==
    <<"A", "B", "C", "D", "E", "F", "G", "H", "I", "J", "K", "L", "M", "N", "O", "P",
      "Q", "R", "S", "T", "U", "V", "W", "X", "Y", "Z", "I+acute", "O+acute">>

LowerChars ==
    <<"a", "b", "c", "d", "e", "f", "g", "h", "i", "j", "k", "l", "m", "n", "o", "p",
      "q", "r", "s", "t", "u", "v", "w", "x", "y", "z", "i+acute", "o+acute">>

\* the letters that NFD decomposes into a base letter and a combining mark
\* of U+0300..U+036F, and their base letters
MarkedChars == <<"i+acute", "o+acute", "I+acute", "O+acute">>

BaseChars == <<"i", "o", "I", "O">>

AsciiLower ==
    {"a", "b", "c", "d", "e", "f", "g", "h", "i", "j", "k", "l", "m",
     "n", "o", "p", "q", "r", "s", "t", "u", "v", "w", "x", "y", "z"}

AsciiUpper ==
    {"A", "B", "C", "D", "E", "F", "G", "H", "I", "J", "K", "L", "M",
     "N", "O", "P", "Q", "R", "S", "T", "U", "V", "W", "X", "Y", "Z"}

DigitChars == {"0", "1", "2", "3", "4", "5", "6", "7", "8", "9"}

\* [a-z0-9]
Alnum == AsciiLower \cup DigitChars

\* \w
Word == AsciiLower \cup AsciiUpper \cup DigitChars \cup {"_"}

\* \s
Spaces == {" "}

Hyphens == {"-"}

\* the image of c under the pairing of the sequences from and to, c itself
\* when from does not hold it
Translate(c, from, to) ==
    IF \E i \in 1..Len(from) : from[i] = c
    THEN to[CHOOSE i \in 1..Len(from) : from[i] = c]
    ELSE c

(***************************************************************************)
(* String.prototype methods and the regular-expression replacements the    *)
(* code uses, on sequences of characters.                                  *)
(***************************************************************************)
toLowerCase(s) == [i \in 1..Len(s) |-> Translate(s[i], UpperChars, LowerChars)]

\* .normalize('NFD').replace(/[\u0300-\u036f]/g, '')
stripDiacritics(s) == [i \in 1..Len(s) |-> Translate(s[i], MarkedChars, BaseChars)]

substring(s, n) == IF Len(s) <= n THEN s ELSE SubSeq(s, 1, n)

\* the last n characters: String.prototype.slice(-n)
sliceLast(s, n) == IF Len(s) <= n THEN s ELSE SubSeq(s, Len(s) - n + 1, Len(s))

\* the string without the characters of chars that start it
stripLeading(s, chars) ==
    IF \A i \in 1..Len(s) : s[i] \in chars THEN <<>>
    ELSE SubSeq(s, CHOOSE i \in 1..Len(s) : s[i] \notin chars /\ \A j \in 1..(i - 1) : s[j] \in chars,
                Len(s))

\* the string without the characters of chars that end it
stripTrailing(s, chars) ==
    IF \A i \in 1..Len(s) : s[i] \in chars THEN <<>>
    ELSE SubSeq(s, 1,
                CHOOSE i \in 1..Len(s) : s[i] \notin chars /\ \A j \in (i + 1)..Len(s) : s[j] \in chars)

trim(s) == stripTrailing(stripLeading(s, Spaces), Spaces)

\* every run of the character c becomes a single c
RECURSIVE squeeze(_, _)
squeeze(s, c) ==
    IF Len(s) <= 1 THEN s
    ELSE IF s[1] = c /\ s[2] = c THEN squeeze(Tail(s), c)
    ELSE <<s[1]>> \o squeeze(Tail(s), c)

\* every character of chars is replaced by the character to
replaceChar(s, chars, to) == [i \in 1..Len(s) |-> IF s[i] \in chars THEN to ELSE s[i]]

\* every character that is not of chars is replaced by the character to
replaceOther(s, chars, to) == [i \in 1..Len(s) |-> IF s[i] \notin chars THEN to ELSE s[i]]

\* .replace(/^-|-$/g, ''): one leading and one trailing hyphen
stripOneHyphenEachEnd(s) ==
    LET from == IF s # <<>> /\ Head(s) = "-" THEN 2 ELSE 1
        to == IF Len(s) >= from /\ s[Len(s)] = "-" THEN Len(s) - 1 ELSE Len(s)
    IN  SubSeq(s, from, to)

startsWith(s, p) == Len(p) <= Len(s) /\ SubSeq(s, 1, Len(p)) = p

endsWith(s, p) == Len(p) <= Len(s) /\ SubSeq(s, Len(s) - Len(p) + 1, Len(s)) = p

includes(s, p) == \E i \in 1..(Len(s) - Len(p) + 1) : SubSeq(s, i, i + Len(p) - 1) = p

DigitOf == <<"0", "1", "2", "3", "4", "5", "6", "7", "8", "9">>

\* Number.prototype.toString, as a template literal applies it
RECURSIVE toString(_)
toString(n) ==
    IF n < 10 THEN <<DigitOf[n + 1]>>
    ELSE toString(n \div 10) \o <<DigitOf[(n % 10) + 1]>>

(***************************************************************************)
(* Handles.  The repository holds two ShopifyProduct classes: one slugs    *)
(* the handle itself, the other asks HandleGeneratorService, which keeps   *)
(* the process-wide registry usedHandles.                                  *)
(***************************************************************************)
HandleMaxLen == 255

RegistryHandleMaxLen == 50

FallbackMinLen == 2

FallbackSkuDigits == 6

FallbackSourceDigits == 8

\* ShopifyProduct.generateHandle
generateHandle(title) ==
    substring(
        stripOneHyphenEachEnd(squeeze(replaceOther(toLowerCase(title), Alnum, "-"), "-")),
        HandleMaxLen)

\* [a-z0-9\s-]
IsHandleChar(c) == c \in Alnum \cup Spaces \cup Hyphens

\* HandleGeneratorService.normalizeTitle
HandleNormalizeTitle(title) ==
    substring(
        stripTrailing(
            stripLeading(
                squeeze(
                    replaceChar(
                        squeeze(SelectSeq(stripDiacritics(toLowerCase(trim(title))), IsHandleChar), " "),
                        Spaces, "-"),
                    "-"),
                Hyphens),
            Hyphens),
        RegistryHandleMaxLen)

\* ShopifyProduct.getSourceType
getSourceType(sku) ==
    IF includes(sku, <<"W", "O", "O", "-">>) THEN <<"w", "o", "o", "c", "o", "m", "m", "e", "r", "c", "e">>
    ELSE IF includes(sku, <<"A", "R", "T", "-">>) THEN <<"a", "r", "t", "w", "o", "r", "k">>
    ELSE IF startsWith(sku, <<"4">>) /\ Len(sku) > 6 THEN <<"a", "r", "t", "w", "o", "r", "k">>
    ELSE <<"u", "n", "k", "n", "o", "w", "n">>

\* HandleGeneratorService.createFallbackHandle; now is Date.now().toString()
createFallbackHandle(title, sku, sourceType, now) ==
    IF sku # <<>>
    THEN replaceOther(toLowerCase(sku), Alnum, "-") \o <<"-">> \o sliceLast(now, FallbackSkuDigits)
    ELSE (IF sourceType # <<>> THEN toLowerCase(sourceType) ELSE <<"p", "r", "o", "d", "u", "c", "t">>)
            \o <<"-">> \o sliceLast(now, FallbackSourceDigits)

\* the loop of HandleGeneratorService.makeUnique
RECURSIVE makeUniqueFrom(_, _, _, _)
makeUniqueFrom(baseHandle, handle, counter, used) ==
    IF handle \in used
    THEN makeUniqueFrom(baseHandle, baseHandle \o <<"-">> \o toString(counter), counter + 1, used)
    ELSE handle

\* a makeUnique that returns the base handle, used or not
withoutSuffix(baseHandle, used) == baseHandle

\* HandleGeneratorService.makeUnique
makeUnique(baseHandle, used) == makeUniqueFrom(baseHandle, baseHandle, 1, used)

\* the base handle of generateUniqueHandle, given the normalized title
baseHandleOf(normalized, title, sku, sourceType, now) ==
    IF normalized = <<>> \/ Len(normalized) < FallbackMinLen
    THEN createFallbackHandle(title, sku, sourceType, now)
    ELSE normalized

\* HandleGeneratorService.generateUniqueHandle: the handle it returns; it
\* adds that handle to the registry
generateUniqueHandle(title, sku, sourceType, now, used) ==
    With(HandleNormalizeTitle(title),
         LAMBDA normalized :
            With(baseHandleOf(normalized, title, sku, sourceType, now),
                 LAMBDA baseHandle : makeUnique(baseHandle, used)))

(***************************************************************************)
(* NormalizeUtils.                                                         *)
(***************************************************************************)
\* the characters that are not of [^\w\s-]
PlainChars == Word \cup Spaces \cup Hyphens

\* NormalizeUtils.normalizeString
normalizeString(str) ==
    trim(squeeze(replaceOther(stripDiacritics(toLowerCase(str)), PlainChars, " "), " "))

GenericTitles ==
    {<<"s", "i", "n", " ", "t", "i", "t", "u", "l", "o">>, <<"s", "i", "n", " ", "t", "i+acute", "t", "u", "l", "o">>, <<"s", "i", "n", " ", "t", "i", "t", "u", "l", "o", "s">>, <<"s", " ", "t">>, <<"s", "/", "t">>}

Untitled == <<"u", "n", "t", "i", "t", "l", "e", "d">>

TitlePrefixes == <<<<"o", "b", "r", "a">>, <<"p", "i", "e", "z", "a">>, <<"s", "e", "r", "i", "e">>, <<"c", "o", "m", "p", "o", "s", "i", "c", "i", "o", "n">>, <<"c", "o", "m", "p", "o", "s", "i", "c", "i", "o+acute", "n">>>>

TitleSuffixes == <<<<"e", "d", "i", "c", "i", "o", "n">>, <<"e", "d", "i", "c", "i", "o+acute", "n">>, <<"r", "e", "p", "r", "o", "d", "u", "c", "c", "i", "o", "n">>, <<"r", "e", "p", "r", "o", "d", "u", "c", "c", "i", "o+acute", "n">>>>

ArtistPrefixes == <<<<"s", "r">>, <<"s", "r", "a">>, <<"d", "r">>, <<"d", "r", "a">>, <<"p", "r", "o", "f">>, <<"i", "n", "g">>>>

ArtistSuffixes == <<<<"j", "r">>, <<"s", "r">>, <<"i", "i">>, <<"i", "i", "i">>, <<"i", "v">>>>

\* s.replace(/^(w1|w2|...)\s+/i, ''), low being s in lower case: the
\* alternative that white space follows goes, with that white space
removePrefix(s, low, words) ==
    IF \E i \in 1..Len(words) : startsWith(low, words[i] \o <<" ">>)
    THEN stripLeading(
            SubSeq(s, Len(words[CHOOSE i \in 1..Len(words) : startsWith(low, words[i] \o <<" ">>)]) + 1,
                   Len(s)),
            Spaces)
    ELSE s

\* s.replace(/\s+(w1|w2|...)$/i, ''), low being s in lower case: the match
\* is the leftmost, so all the white space before the word goes with it
removeSuffix(s, low, words) ==
    IF \E i \in 1..Len(words) : endsWith(low, <<" ">> \o words[i])
    THEN stripTrailing(
            SubSeq(s, 1,
                   Len(s) - Len(words[CHOOSE i \in 1..Len(words) : endsWith(low, <<" ">> \o words[i])])),
            Spaces)
    ELSE s

\* s without the first of the prefixes and then without the first of the
\* suffixes, both looked for case-insensitively
withoutAffixes(s, prefixes, suffixes) ==
    With(removePrefix(s, toLowerCase(s), prefixes),
         LAMBDA t : removeSuffix(t, toLowerCase(t), suffixes))

\* NormalizeUtils.normalizeTitle
normalizeTitle(title) ==
    With(normalizeString(title),
         LAMBDA normalized :
            IF normalized \in GenericTitles THEN Untitled
            ELSE withoutAffixes(normalized, TitlePrefixes, TitleSuffixes))

\* NormalizeUtils.normalizeArtist
normalizeArtist(artist) ==
    withoutAffixes(normalizeString(artist), ArtistPrefixes, ArtistSuffixes)

Min3(a, b, c) == IF a <= b /\ a <= c THEN a ELSE IF b <= c THEN b ELSE c

\* one row d[i][0..n] of the dynamic program, from the row d[i-1][0..n];
\* rows are sequences indexed from 1, so d[i][j] is row[j + 1]
RECURSIVE levenshteinRow(_, _, _, _)
levenshteinRow(prev, row, ch, str2) ==
    IF Len(row) > Len(str2) THEN row
    ELSE levenshteinRow(prev,
             Append(row, Min3(prev[Len(row) + 1] + 1,
                              row[Len(row)] + 1,
                              prev[Len(row)] + (IF ch = str2[Len(row)] THEN 0 ELSE 1))),
             ch, str2)

RECURSIVE levenshteinRows(_, _, _, _)
levenshteinRows(prev, i, str1, str2) ==
    IF i > Len(str1) THEN prev
    ELSE levenshteinRows(levenshteinRow(prev, <<i>>, str1[i], str2), i + 1, str1, str2)

\* the difference of the two lengths
lengthDifference(str1, str2) ==
    IF Len(str1) >= Len(str2) THEN Len(str1) - Len(str2) ELSE Len(str2) - Len(str1)

\* NormalizeUtils.levenshteinDistance
levenshteinDistance(str1, str2) ==
    levenshteinRows([j \in 1..(Len(str2) + 1) |-> j - 1], 1, str1, str2)[Len(str2) + 1]

\* A similarity is the fraction num/den, den > 0.
One == [num |-> 1, den |-> 1]

Zero == [num |-> 0, den |-> 1]

Less(a, b) == a.num * b.den < b.num * a.den

Longer(a, b) == IF Len(a) >= Len(b) THEN Len(a) ELSE Len(b)

\* the distance taken relative to the length of the first string
similarityToFirst(norm1, norm2) ==
    IF norm1 = norm2 THEN One
    ELSE IF Len(norm1) = 0 THEN Zero
    ELSE [num |-> Len(norm1) - levenshteinDistance(norm1, norm2), den |-> Len(norm1)]

\* getSimilarity once both strings are normalized
similarityOfNormalized(norm1, norm2) ==
    IF norm1 = norm2 THEN One
    ELSE IF Longer(norm1, norm2) = 0 THEN One
    ELSE [num |-> Longer(norm1, norm2) - levenshteinDistance(norm1, norm2),
          den |-> Longer(norm1, norm2)]

\* NormalizeUtils.getSimilarity
getSimilarity(str1, str2) ==
    IF str1 = <<>> /\ str2 = <<>> THEN One
    ELSE IF str1 = <<>> \/ str2 = <<>> THEN Zero
    ELSE With(<<normalizeString(str1), normalizeString(str2)>>,
              LAMBDA norm : similarityOfNormalized(norm[1], norm[2]))

\* keys that are the title in lower case, trimmed, whatever the strategy
keyingByExactTitle(title, artist, dimensions, matchingStrategy) ==
    <<trim(toLowerCase(title))>>

\* generateComparisonKeys with the two keys of advanced the other way round
titleKeyFirst(title, artist, dimensions, matchingStrategy) ==
    IF matchingStrategy = "exactTitle" THEN <<trim(toLowerCase(title))>>
    ELSE IF matchingStrategy \in {"normalizedTitle", "fuzzy"} THEN <<normalizeTitle(title)>>
    ELSE IF matchingStrategy = "advanced"
    THEN <<normalizeTitle(title), normalizeTitle(title) \o <<"|">> \o normalizeArtist(artist)>>
    ELSE <<>>

\* generateComparisonKeys
generateComparisonKeys(title, artist, dimensions, matchingStrategy) ==
    IF matchingStrategy = "exactTitle" THEN <<trim(toLowerCase(title))>>
    ELSE IF matchingStrategy \in {"normalizedTitle", "fuzzy"} THEN <<normalizeTitle(title)>>
    ELSE IF matchingStrategy = "advanced"
    THEN With(normalizeTitle(title),
              LAMBDA t : <<t \o <<"|">> \o normalizeArtist(artist), t>>)
    ELSE <<>>

(***************************************************************************)
(* ShopifyProduct.  Of the columns of a row the model keeps those the      *)
(* detection and the resolution read or write.                             *)
(***************************************************************************)
ProductModels == {"generateHandle", "HandleGeneratorService"}

\* the constructor and setDefaults
NewProduct ==
    [Handle |-> <<>>, Title |-> <<>>, SEOTitle |-> <<>>, ImageAltText |-> <<>>,
     Vendor |-> <<>>, SKU |-> <<>>, Status |-> "active"]

\* a row with the handle g, and the registry with g in it
withUniqueHandle(p, used, g) == [p |-> [p EXCEPT !.Handle = g], used |-> used \cup {g}]

\* ShopifyProduct.setHandle of either class: the row and the registry after
\* the call
setHandle(model, p, used, title, now) ==
    IF model = "generateHandle"
    THEN [p |-> [p EXCEPT !.Handle = generateHandle(title)], used |-> used]
    ELSE With(generateUniqueHandle(title, p.SKU, getSourceType(p.SKU), now, used),
              LAMBDA uniqueHandle : withUniqueHandle(p, used, uniqueHandle))

\* the three columns setTitle writes
titled(p, title) == [p EXCEPT !.Title = title, !.SEOTitle = title, !.ImageAltText = title]

\* ShopifyProduct.setTitle of either class
setTitle(model, p, used, title, now) ==
    IF model = "generateHandle"
    THEN [p |-> titled(p, title), used |-> used]
    ELSE With(generateUniqueHandle(title, p.SKU, getSourceType(p.SKU), now, used),
              LAMBDA uniqueHandle : withUniqueHandle(titled(p, title), used, uniqueHandle))

\* ShopifyProduct.createImageRow
createImageRow(p, altText) ==
    [Handle |-> p.Handle, Title |-> <<>>, SEOTitle |-> <<>>,
     ImageAltText |-> IF altText # <<>> THEN altText ELSE p.Title,
     Vendor |-> <<>>, SKU |-> <<>>, Status |-> ""]

getTitle(h, id) == h[id].Title

getHandle(h, id) == h[id].Handle

getSKU(h, id) == h[id].SKU

getVendor(h, id) == h[id].Vendor

getStatus(h, id) == h[id].Status

\* the value of a property that was never set
Undefined == "undefined"

(***************************************************************************)
(* DuplicateDetectionService.                                              *)
(***************************************************************************)
NoMatch == [none |-> TRUE]

\* similarityThreshold || 0.8
DefaultThreshold == [num |-> 4, den |-> 5]

\* a configuration that does not set similarityThreshold
NoThreshold == [undefined |-> TRUE]

NotAvailable == <<"N", "/", "A">>

\* Math.round(similarity * 100)
RoundPercent(sim) == (200 * sim.num + sim.den) \div (2 * sim.den)

\* a threshold of 0.8 whatever the configuration
ignoringThreshold(config) == DefaultThreshold

\* this.config.similarityThreshold || 0.8
thresholdOf(config) ==
    IF config.similarityThreshold = NoThreshold THEN DefaultThreshold
    ELSE IF config.similarityThreshold.num = 0 THEN DefaultThreshold
    ELSE config.similarityThreshold

\* the object createDuplicateMatch returns; artworkRow and wooRow are not
\* fields of a DuplicateMatch: they record which rows were compared
duplicateMatch(h, wooProduct, artworkProduct, matchType, similarity) ==
    [title |-> getTitle(h, wooProduct),
     artworkSKU |-> getSKU(h, artworkProduct),
     wooSKU |-> getSKU(h, wooProduct),
     artworkStatus |-> getStatus(h, artworkProduct),
     wooStatus |-> getStatus(h, wooProduct),
     artworkArtist |-> IF getVendor(h, artworkProduct) # <<>>
                       THEN getVendor(h, artworkProduct) ELSE NotAvailable,
     wooArtist |-> IF getVendor(h, wooProduct) # <<>>
                   THEN getVendor(h, wooProduct) ELSE NotAvailable,
     matchType |-> matchType,
     similarity |-> similarity,
     artworkRow |-> artworkProduct,
     wooRow |-> wooProduct]

titleMatch(h, wooProduct, artworkProduct) ==
    normalizeTitle(getTitle(h, wooProduct)) = normalizeTitle(getTitle(h, artworkProduct))

artistMatch(h, wooProduct, artworkProduct) ==
    normalizeArtist(getVendor(h, wooProduct)) = normalizeArtist(getVendor(h, artworkProduct))

\* the matchType title+artist whatever the artists
alwaysTitleAndArtist(isTitleMatch, isArtistMatch) == <<"t", "i", "t", "l", "e", "+", "a", "r", "t", "i", "s", "t">>

\* the matchType of the strategy advanced, <<>> standing for return null
advancedMatchType(isTitleMatch, isArtistMatch) ==
    IF isTitleMatch /\ isArtistMatch THEN <<"t", "i", "t", "l", "e", "+", "a", "r", "t", "i", "s", "t">>
    ELSE IF isTitleMatch THEN <<"t", "i", "t", "l", "e", " ", "o", "n", "l", "y">>
    ELSE <<>>

\* DuplicateDetectionService.createDuplicateMatch
createDuplicateMatch(h, config, wooProduct, artworkProduct) ==
    IF config.matchingStrategy = "fuzzy"
    THEN With(getSimilarity(getTitle(h, wooProduct), getTitle(h, artworkProduct)),
              LAMBDA similarity :
                 IF Less(similarity, thresholdOf(config)) THEN NoMatch
                 ELSE duplicateMatch(h, wooProduct, artworkProduct,
                          <<"f", "u", "z", "z", "y", " ", "(">> \o toString(RoundPercent(similarity)) \o <<"%", ")">>,
                          similarity))
    ELSE IF config.matchingStrategy = "advanced"
    THEN With(advancedMatchType(titleMatch(h, wooProduct, artworkProduct),
                                artistMatch(h, wooProduct, artworkProduct)),
              LAMBDA matchType :
                 IF matchType = <<>> THEN NoMatch
                 ELSE duplicateMatch(h, wooProduct, artworkProduct, matchType, One))
    ELSE duplicateMatch(h, wooProduct, artworkProduct, <<"t", "i", "t", "l", "e">>, One)

\* one key, the same for every product
oneKeyForAll(h, config, product) == <<<<>>>>

productKeys(h, config, product) ==
    generateComparisonKeys(getTitle(h, product), getVendor(h, product), <<>>, config.matchingStrategy)

\* if (!productMap.has(key)) productMap.set(key, []); productMap.get(key).push(product)
pushUnderKey(productMap, key, product) ==
    [k \in DOMAIN productMap \cup {key} |->
        IF k = key
        THEN Append(IF key \in DOMAIN productMap THEN productMap[key] ELSE <<>>, product)
        ELSE productMap[k]]

\* keys.forEach(key => ...)
RECURSIVE pushUnderKeys(_, _, _)
pushUnderKeys(productMap, keys, product) ==
    IF keys = <<>> THEN productMap
    ELSE pushUnderKeys(pushUnderKey(productMap, Head(keys), product), Tail(keys), product)

\* mainProducts.forEach(product => ...)
RECURSIVE indexProducts(_, _, _, _)
indexProducts(h, config, products, productMap) ==
    IF products = <<>> THEN productMap
    ELSE indexProducts(h, config, Tail(products),
             IF getTitle(h, Head(products)) # <<>>
             THEN pushUnderKeys(productMap, productKeys(h, config, Head(products)), Head(products))
             ELSE productMap)

EmptyMap == [k \in {} |-> <<>>]

\* products.filter(p => p.getStatus() !== undefined)
withStatus(h, products) ==
    LET IsMain(id) == getStatus(h, id) # Undefined
    IN  SelectSeq(products, IsMain)

\* DuplicateDetectionService.createProductMap
createProductMap(h, config, products) ==
    indexProducts(h, config, withStatus(h, products), EmptyMap)

\* the inner loop with no return after the first match
RECURSIVE probingEveryCandidate(_, _, _, _, _)
probingEveryCandidate(h, config, wooProduct, bucket, matches) ==
    IF bucket = <<>> THEN [matches |-> matches, returned |-> FALSE]
    ELSE With(createDuplicateMatch(h, config, wooProduct, Head(bucket)),
              LAMBDA match :
                 probingEveryCandidate(h, config, wooProduct, Tail(bucket),
                     IF match = NoMatch THEN matches ELSE Append(matches, match)))

\* the inner loop of findMatches over one bucket: the matches so far and
\* whether the method has returned
RECURSIVE probeBucket(_, _, _, _, _)
probeBucket(h, config, wooProduct, bucket, matches) ==
    IF bucket = <<>> THEN [matches |-> matches, returned |-> FALSE]
    ELSE With(createDuplicateMatch(h, config, wooProduct, Head(bucket)),
              LAMBDA match :
                 IF match = NoMatch
                 THEN probeBucket(h, config, wooProduct, Tail(bucket), matches)
                 ELSE IF config.matchingStrategy # "fuzzy"
                 THEN [matches |-> Append(matches, match), returned |-> TRUE]
                 ELSE probeBucket(h, config, wooProduct, Tail(bucket), Append(matches, match)))

\* the outer loop of findMatches over the keys
RECURSIVE probeKeys(_, _, _, _, _, _)
probeKeys(h, config, wooProduct, productMap, keys, matches) ==
    IF keys = <<>> THEN matches
    ELSE IF Head(keys) \in DOMAIN productMap
    THEN With(probeBucket(h, config, wooProduct, productMap[Head(keys)], matches),
              LAMBDA r :
                 IF r.returned THEN r.matches
                 ELSE probeKeys(h, config, wooProduct, productMap, Tail(keys), r.matches))
    ELSE probeKeys(h, config, wooProduct, productMap, Tail(keys), matches)

\* DuplicateDetectionService.findMatches
findMatches(h, config, wooProduct, productMap) ==
    IF getTitle(h, wooProduct) = <<>> THEN <<>>
    ELSE probeKeys(h, config, wooProduct, productMap, productKeys(h, config, wooProduct), <<>>)

\* the first match of the group, whatever the similarities
firstMatch(matches, best) == best

\* the first match of the highest similarity: matches.sort((a, b) =>
\* b.similarity - a.similarity)[0] of a stable sort
RECURSIVE bestMatch(_, _)
bestMatch(matches, best) ==
    IF matches = <<>> THEN best
    ELSE bestMatch(Tail(matches),
                   IF Less(best.similarity, Head(matches).similarity) THEN Head(matches) ELSE best)

\* the keys of duplicatesBySKU in insertion order
RECURSIVE skusInOrder(_, _)
skusInOrder(duplicates, seen) ==
    IF duplicates = <<>> THEN seen
    ELSE skusInOrder(Tail(duplicates),
             IF \E i \in 1..Len(seen) : seen[i] = Head(duplicates).wooSKU
             THEN seen ELSE Append(seen, Head(duplicates).wooSKU))

\* duplicatesBySKU.get(sku)
matchesOfSKU(duplicates, sku) ==
    LET Same(d) == d.wooSKU = sku
    IN  SelectSeq(duplicates, Same)

\* the match kept for one SKU
keptOfSKU(duplicates, sku) ==
    With(matchesOfSKU(duplicates, sku), LAMBDA matches : bestMatch(Tail(matches), Head(matches)))

\* DuplicateDetectionService.removeDuplicateMatches
removeDuplicateMatches(config, duplicates) ==
    IF config.matchingStrategy # "fuzzy" THEN duplicates
    ELSE With(skusInOrder(duplicates, <<>>),
              LAMBDA skus : [i \in 1..Len(skus) |-> keptOfSKU(duplicates, skus[i])])

\* for (const wooProduct of mainWooProducts) duplicates.push(...findMatches(...))
RECURSIVE collectMatches(_, _, _, _, _)
collectMatches(h, config, mainWooProducts, productMap, duplicates) ==
    IF mainWooProducts = <<>> THEN duplicates
    ELSE collectMatches(h, config, Tail(mainWooProducts), productMap,
             duplicates \o findMatches(h, config, Head(mainWooProducts), productMap))

\* wooProducts.filter(p => p.getTitle() !== '')
withTitle(h, products) ==
    LET HasTitle(id) == getTitle(h, id) # <<>>
    IN  SelectSeq(products, HasTitle)

\* the loop of detectDuplicates over every secondary row, titled or not
RECURSIVE probingEveryRow(_, _, _, _, _)
probingEveryRow(h, config, rows, productMap, duplicates) ==
    IF rows = <<>> THEN duplicates
    ELSE probingEveryRow(h, config, Tail(rows), productMap,
             duplicates \o probeKeys(h, config, Head(rows), productMap,
                                     productKeys(h, config, Head(rows)), <<>>))

\* a detectDuplicates that probes the rows without a title as well
detectingEveryRow(h, config, artwork, woo) ==
    removeDuplicateMatches(config,
        probingEveryRow(h, config, woo, createProductMap(h, config, artwork), <<>>))

\* DuplicateDetectionService.detectDuplicates
detectDuplicates(h, config, artwork, woo) ==
    removeDuplicateMatches(config,
        collectMatches(h, config, withTitle(h, woo), createProductMap(h, config, artwork), <<>>))

(***************************************************************************)
(* DuplicateResolutionService.  Its methods return the heap and the        *)
(* registry they leave, and the two collections they return.               *)
(***************************************************************************)
WooCommerceTitleSuffix == <<" ", "(", "W", "o", "o", "C", "o", "m", "m", "e", "r", "c", "e", ")">>

WooHandleSuffix == <<"-", "w", "o", "o">>

IsSlugChar(c) == c \in Alnum \cup Hyphens

\* oldTitle.toLowerCase().replace(/\s+/g, '-').replace(/[^a-z0-9-]/g, '')
slugOfTitle(oldTitle) ==
    SelectSeq(replaceChar(squeeze(toLowerCase(oldTitle), " "), Spaces, "-"), IsSlugChar)

\* the heap with the row id replaced by what a setter left
stored(h, id, r) == [h |-> [h EXCEPT ![id] = r.p], used |-> r.used]

\* relatedImages.forEach(img => img.setHandle(newHandle))
RECURSIVE setHandleOfEach(_, _, _, _, _, _)
setHandleOfEach(model, h, used, images, newHandle, now) ==
    IF images = <<>> THEN [h |-> h, used |-> used]
    ELSE With(stored(h, Head(images), setHandle(model, h[Head(images)], used, newHandle, now)),
              LAMBDA r : setHandleOfEach(model, r.h, r.used, Tail(images), newHandle, now))

\* products.filter(p => p.getTitle() === '' && p.getHandle() === oldHandle)
relatedImages(h, products, oldHandle) ==
    LET Related(id) == getTitle(h, id) = <<>> /\ getHandle(h, id) = oldHandle
    IN  SelectSeq(products, Related)

\* DuplicateResolutionService.updateRelatedImageRows
updateRelatedImageRows(model, h, used, products, oldTitle, newHandle, now) ==
    setHandleOfEach(model, h, used, relatedImages(h, products, slugOfTitle(oldTitle)), newHandle, now)

\* wooProduct.setTitle(`${oldTitle} (WooCommerce)`); wooProduct.setHandle(`${oldHandle}-woo`)
renamed(model, p, used, now) ==
    With(setTitle(model, p, used, p.Title \o WooCommerceTitleSuffix, now),
         LAMBDA a : setHandle(model, a.p, a.used, p.Handle \o WooHandleSuffix, now))

\* the body of the renaming loop for one row of the secondary collection
renameWooProduct(model, h, used, products, wooProduct, now) ==
    With(renamed(model, h[wooProduct], used, now),
         LAMBDA b :
            updateRelatedImageRows(model, [h EXCEPT ![wooProduct] = b.p], b.used, products,
                                   getTitle(h, wooProduct), b.p.Handle, now))

\* for (const wooProduct of products) if (title !== '' && skus.has(sku)) ...
RECURSIVE renameLoop(_, _, _, _, _, _, _)
renameLoop(model, h, used, products, rest, skus, now) ==
    IF rest = <<>> THEN [h |-> h, used |-> used]
    ELSE With(IF getTitle(h, Head(rest)) # <<>> /\ getSKU(h, Head(rest)) \in skus
              THEN renameWooProduct(model, h, used, products, Head(rest), now)
              ELSE [h |-> h, used |-> used],
              LAMBDA r : renameLoop(model, r.h, r.used, products, Tail(rest), skus, now))

\* a filter that keeps every row
keepingEveryRow(h, products, skus) == products

\* products.filter(p => { if (!p.getSKU()) return true; return !skus.has(p.getSKU()); })
withoutSKUs(h, products, skus) ==
    LET Keep(id) == getSKU(h, id) = <<>> \/ getSKU(h, id) \notin skus
    IN  SelectSeq(products, Keep)

\* new Set(duplicates.map(d => d.wooSKU))
wooSKUs(dupes) == {dupes[i].wooSKU : i \in 1..Len(dupes)}

\* new Set(duplicates.map(d => d.artworkSKU))
artworkSKUs(dupes) == {dupes[i].artworkSKU : i \in 1..Len(dupes)}

\* what a method of the service returns
returned(r, artwork, woo) ==
    [h |-> r.h, used |-> r.used, artworkProducts |-> artwork, wooProducts |-> woo]

\* DuplicateResolutionService.keepBothVersions
keepBothVersions(model, h, used, dupes, artwork, woo, now) ==
    returned(renameLoop(model, h, used, woo, woo, wooSKUs(dupes), now), artwork, woo)

\* a preferArtworkVersions that filters nothing
keepingEveryWooProduct(model, h, used, dupes, artwork, woo, now) ==
    [h |-> h, used |-> used, artworkProducts |-> artwork, wooProducts |-> woo]

\* DuplicateResolutionService.preferArtworkVersions
preferArtworkVersions(model, h, used, dupes, artwork, woo, now) ==
    [h |-> h, used |-> used, artworkProducts |-> artwork,
     wooProducts |-> withoutSKUs(h, woo, wooSKUs(dupes))]

\* a preferWooVersions that filters by the SKUs of the other side
filteringByWooSKUs(model, h, used, dupes, artwork, woo, now) ==
    [h |-> h, used |-> used, artworkProducts |-> withoutSKUs(h, artwork, wooSKUs(dupes)),
     wooProducts |-> woo]

\* DuplicateResolutionService.preferWooVersions
preferWooVersions(model, h, used, dupes, artwork, woo, now) ==
    [h |-> h, used |-> used, artworkProducts |-> withoutSKUs(h, artwork, artworkSKUs(dupes)),
     wooProducts |-> woo]

\* if (toRemove.size > 0) filtered = products.filter(...)
filteredProducts(h, products, toRemove) ==
    IF toRemove # {} THEN withoutSKUs(h, products, toRemove) ELSE products

\* if (toRenameWoo.size > 0) for (const wooProduct of filteredWooProducts) ...
renameChosen(model, h, used, filteredWoo, renameWoo, now) ==
    IF renameWoo # {}
    THEN renameLoop(model, h, used, filteredWoo, filteredWoo, renameWoo, now)
    ELSE [h |-> h, used |-> used]

\* an askForEachDuplicate that renames the rows of the collection it was
\* given and filters afterwards
renamingBeforeFiltering(model, h, used, artwork, woo, removeWoo, removeArtwork, renameWoo, now) ==
    returned(renameChosen(model, h, used, woo, renameWoo, now),
             filteredProducts(h, artwork, removeArtwork),
             filteredProducts(h, woo, removeWoo))

\* DuplicateResolutionService.askForEachDuplicate after its loop: the
\* removals and the renames of the three sets
applyChoices(model, h, used, artwork, woo, removeWoo, removeArtwork, renameWoo, now) ==
    With(filteredProducts(h, woo, removeWoo),
         LAMBDA filteredWooProducts :
            returned(renameChosen(model, h, used, filteredWooProducts, renameWoo, now),
                     filteredProducts(h, artwork, removeArtwork),
                     filteredWooProducts))

\* the three sets of askForEachDuplicate after one choice
recordChoice(sets, choice, dupe) ==
    IF choice = "artwork" THEN [sets EXCEPT !.toRemoveFromWoo = @ \cup {dupe.wooSKU}]
    ELSE IF choice = "woo" THEN [sets EXCEPT !.toRemoveFromArtwork = @ \cup {dupe.artworkSKU}]
    ELSE IF choice = "both" THEN [sets EXCEPT !.toRenameWoo = @ \cup {dupe.wooSKU}]
    ELSE sets

ManualChoiceRequired == "Manual choice handler is required for \"ask\" strategy"

UnknownStrategy == "Unknown duplicate resolution strategy"

\* the call of a method of the service that returns without awaiting
returns(r) ==
    [kind |-> "return", h |-> r.h, used |-> r.used,
     artworkProducts |-> r.artworkProducts, wooProducts |-> r.wooProducts]

\* throw new Error(message)
throws(message) == [kind |-> "throw", error |-> message]

\* a resolveDuplicates that enters the loop of the strategy ask whether or
\* not it was given a handler
askingWithoutHandler(model, h, used, dupes, artwork, woo, config, now) ==
    IF Len(dupes) = 0
    THEN returns([h |-> h, used |-> used, artworkProducts |-> artwork, wooProducts |-> woo])
    ELSE IF config.strategy = "keepBoth"
    THEN returns(keepBothVersions(model, h, used, dupes, artwork, woo, now))
    ELSE IF config.strategy = "preferArtwork"
    THEN returns(preferArtworkVersions(model, h, used, dupes, artwork, woo, now))
    ELSE IF config.strategy = "preferWoo"
    THEN returns(preferWooVersions(model, h, used, dupes, artwork, woo, now))
    ELSE IF config.strategy = "ask"
    THEN [kind |-> "ask"]
    ELSE throws(UnknownStrategy)

\* a resolveDuplicates whose switch treats every other strategy as keepBoth
defaultingToKeepBoth(model, h, used, dupes, artwork, woo, config, now) ==
    IF Len(dupes) = 0
    THEN returns([h |-> h, used |-> used, artworkProducts |-> artwork, wooProducts |-> woo])
    ELSE IF config.strategy = "preferArtwork"
    THEN returns(preferArtworkVersions(model, h, used, dupes, artwork, woo, now))
    ELSE IF config.strategy = "preferWoo"
    THEN returns(preferWooVersions(model, h, used, dupes, artwork, woo, now))
    ELSE IF config.strategy = "ask"
    THEN IF ~config.onManualChoice
         THEN throws(ManualChoiceRequired)
         ELSE [kind |-> "ask"]
    ELSE returns(keepBothVersions(model, h, used, dupes, artwork, woo, now))

\* a resolveDuplicates without the early return for an empty match list
withoutEarlyReturn(model, h, used, dupes, artwork, woo, config, now) ==
    IF config.strategy = "keepBoth"
    THEN returns(keepBothVersions(model, h, used, dupes, artwork, woo, now))
    ELSE IF config.strategy = "preferArtwork"
    THEN returns(preferArtworkVersions(model, h, used, dupes, artwork, woo, now))
    ELSE IF config.strategy = "preferWoo"
    THEN returns(preferWooVersions(model, h, used, dupes, artwork, woo, now))
    ELSE IF config.strategy = "ask"
    THEN IF ~config.onManualChoice
         THEN throws(ManualChoiceRequired)
         ELSE [kind |-> "ask"]
    ELSE throws(UnknownStrategy)

\* DuplicateResolutionService.resolveDuplicates up to the first await: it
\* returns collections, throws, or enters the loop of askForEachDuplicate
resolveDuplicates(model, h, used, dupes, artwork, woo, config, now) ==
    IF Len(dupes) = 0
    THEN returns([h |-> h, used |-> used, artworkProducts |-> artwork, wooProducts |-> woo])
    ELSE IF config.strategy = "keepBoth"
    THEN returns(keepBothVersions(model, h, used, dupes, artwork, woo, now))
    ELSE IF config.strategy = "preferArtwork"
    THEN returns(preferArtworkVersions(model, h, used, dupes, artwork, woo, now))
    ELSE IF config.strategy = "preferWoo"
    THEN returns(preferWooVersions(model, h, used, dupes, artwork, woo, now))
    ELSE IF config.strategy = "ask"
    THEN IF ~config.onManualChoice
         THEN throws(ManualChoiceRequired)
         ELSE [kind |-> "ask"]
    ELSE throws(UnknownStrategy)

(***************************************************************************)
(* The inputs of the model.                                                *)
(***************************************************************************)
\* the rows of the two collections together
MaxRows == 3

RedVase == <<"R", "e", "d", " ", "V", "a", "s", "e">>

RedDotVase == <<"R", "e", "d", ".", "V", "a", "s", "e">>

RedVaseWoo == <<"R", "e", "d", " ", "V", "a", "s", "e", " ", "W", "o", "o">>

Bangs == <<"!", "!">>

ArtworkNames == {RedVase, RedVaseWoo, Bangs}

WooTitles == {RedVase, RedDotVase, Bangs}

\* the Piece Id of the n-th record of the Artwork Archive export
PieceId(n) == <<"A">> \o toString(n)

WooSkus == <<<<"W", "1">>, <<"W", "2">>>>

ImpulsoGaleria == <<"I", "m", "p", "u", "l", "s", "o", " ", "G", "a", "l", "e", "r", "i", "a">>

ArtworkVendors == {ImpulsoGaleria}

Timestamps == {<<"1", "7", "6", "0", "0", "0", "0", "0", "0", "0", "0", "0", "1">>, <<"1", "7", "6", "0", "0", "0", "0", "0", "0", "0", "0", "0", "2">>}

DetectionConfigs ==
    {[matchingStrategy |-> s, similarityThreshold |-> NoThreshold] :
        s \in {"exactTitle", "normalizedTitle", "advanced", "fuzzy"}}

Strategies == {"keepBoth", "preferArtwork", "preferWoo", "ask", "merge"}

\* handleDuplicates passes the handler with the strategy ask only; the last
\* configuration is ask without its handler
ResolutionConfigs ==
    {[strategy |-> s, onManualChoice |-> (s = "ask")] : s \in Strategies}
        \cup {[strategy |-> "ask", onManualChoice |-> FALSE]}

Choices == {"artwork", "woo", "both"}

(***************************************************************************)
(* The state.                                                              *)
(***************************************************************************)
VARIABLES
    productModel,       \* which ShopifyProduct class the build links
    heap,               \* the ShopifyProduct objects, by id
    artworkProducts,    \* the caller's primary array
    wooProducts,        \* the caller's secondary array
    usedHandles,        \* HandleGeneratorService.usedHandles
    pc,                 \* "convert", "detected", "awaiting", "done", "failed"
    detection,          \* the DuplicateDetectionConfig
    duplicates,         \* what detectDuplicates returned
    resolution,         \* the DuplicateResolutionConfig
    dupeIndex,          \* the match askForEachDuplicate is at
    toRemoveFromWoo,
    toRemoveFromArtwork,
    toRenameWoo,
    invoked,            \* the matches onManualChoice was invoked with, in order
    settled,            \* how many of these invocations have resolved or rejected
    result,             \* what resolveDuplicates returned
    error,              \* what resolveDuplicates threw
    atCall,             \* the heap and the two arrays when resolveDuplicates was called
    args,               \* the arguments of a call of one of the functions of normalizeFields
    value               \* what that call returned

vars ==
    <<productModel, heap, artworkProducts, wooProducts, usedHandles, pc, detection,
      duplicates, resolution, dupeIndex, toRemoveFromWoo, toRemoveFromArtwork,
      toRenameWoo, invoked, settled, result, error, atCall, args, value>>

\* the variables of a call of normalizeFields on its own
utilVars == <<args, value>>

NoArgs == [none |-> TRUE]

NoValue == [none |-> TRUE]

NoConfig == [none |-> TRUE]

NoResult == [none |-> TRUE]

NoError == "none"

NoCall == [none |-> TRUE]

ManualChoiceFailed == "onManualChoice rejected"

\* nothing converted yet, no service called
Constructed ==
    /\ productModel \in ProductModels
    /\ heap = <<>>
    /\ artworkProducts = <<>>
    /\ wooProducts = <<>>
    /\ usedHandles = {}
    /\ pc = "convert"
    /\ detection = NoConfig
    /\ duplicates = <<>>
    /\ resolution = NoConfig
    /\ dupeIndex = 0
    /\ toRemoveFromWoo = {}
    /\ toRemoveFromArtwork = {}
    /\ toRenameWoo = {}
    /\ invoked = <<>>
    /\ settled = 0
    /\ result = NoResult
    /\ error = NoError
    /\ atCall = NoCall

Init ==
    /\ Constructed
    /\ args = NoArgs
    /\ value = NoValue

resolutionVars ==
    <<resolution, dupeIndex, toRemoveFromWoo, toRemoveFromArtwork, toRenameWoo,
      invoked, settled, result, error, atCall>>

\* .setVendor(vendor) ... .setVariantSKU(sku)
withVendorAndSKU(r, vendor, sku) ==
    [p |-> [r.p EXCEPT !.Vendor = vendor, !.SKU = sku], used |-> r.used]

\* product.setTitle(t).setHandle(t).setVendor(v).setVariantSKU(sku) of the
\* converters
convertedProduct(model, used, title, vendor, sku, now) ==
    With(setTitle(model, NewProduct, used, title, now),
         LAMBDA a : withVendorAndSKU(setHandle(model, a.p, a.used, title, now), vendor, sku))

\* ArtworkToShopifyConverter.convertSingleArtwork, pushed by
\* convertArtworkToShopify; the Artwork Archive export is converted first
ConvertArtwork(name, vendor, now) ==
    /\ pc = "convert"
    /\ UNCHANGED utilVars
    /\ wooProducts = <<>>
    /\ \E r \in {convertedProduct(productModel, usedHandles, name, vendor,
                                  PieceId(Len(artworkProducts) + 1), now)} :
          /\ heap' = Append(heap, r.p)
          /\ usedHandles' = r.used
    /\ artworkProducts' = Append(artworkProducts, Len(heap) + 1)
    /\ UNCHANGED <<productModel, wooProducts, pc, detection, duplicates, resolutionVars>>

IsMainRow(h, id) == getTitle(h, id) # <<>>

mainRows(h, products) == LET Main(id) == IsMainRow(h, id) IN SelectSeq(products, Main)

\* the SKUs of the WooCommerce export are used in the order of WooSkus
IsNextWooSku(h, woo, sku) ==
    \E k \in 1..Len(WooSkus) :
        /\ sku = WooSkus[k]
        /\ \A j \in 1..(k - 1) : \E i \in 1..Len(woo) : getSKU(h, woo[i]) = WooSkus[j]

\* WooCommerceToShopifyConverter.convertSingleWooProduct, pushed by
\* convertToShopify
ConvertWoo(post_title, sku, now) ==
    /\ pc = "convert"
    /\ UNCHANGED utilVars
    /\ IsNextWooSku(heap, wooProducts, sku)
    /\ \E r \in {convertedProduct(productModel, usedHandles, post_title, ImpulsoGaleria, sku, now)} :
          /\ heap' = Append(heap, r.p)
          /\ usedHandles' = r.used
    /\ wooProducts' = Append(wooProducts, Len(heap) + 1)
    /\ UNCHANGED <<productModel, artworkProducts, pc, detection, duplicates, resolutionVars>>

\* the main row converted last
lastMainRow(h, products) ==
    With(mainRows(h, products), LAMBDA mains : mains[Len(mains)])

\* WooCommerceToShopifyConverter.createAdditionalImageRows: an image row of
\* the product converted last, pushed after it
CreateAdditionalImageRow ==
    /\ pc = "convert"
    /\ UNCHANGED utilVars
    /\ wooProducts # <<>>
    /\ \E mainProduct \in {lastMainRow(heap, wooProducts)} :
          heap' = Append(heap, createImageRow(heap[mainProduct], getTitle(heap, mainProduct)))
    /\ wooProducts' = Append(wooProducts, Len(heap) + 1)
    /\ UNCHANGED <<productModel, artworkProducts, usedHandles, pc, detection, duplicates,
                   resolutionVars>>

\* Commands.handleDuplicates up to detectionService.detectDuplicates
DetectDuplicates(config) ==
    /\ pc = "convert"
    /\ UNCHANGED utilVars
    /\ pc' = "detected"
    /\ detection' = config
    /\ duplicates' = detectDuplicates(heap, config, artworkProducts, wooProducts)
    /\ UNCHANGED <<productModel, heap, artworkProducts, wooProducts, usedHandles, resolutionVars>>

\* the state after resolveDuplicates returned r
Returned(r) ==
    /\ pc' = "done"
    /\ heap' = r.h
    /\ usedHandles' = r.used
    /\ result' = [artworkProducts |-> r.artworkProducts, wooProducts |-> r.wooProducts]

\* a call of DuplicateResolutionService.resolveDuplicates with the two
\* collections and the matches detectDuplicates returned for them, up to its
\* return, its throw or its first await; Commands.handleDuplicates makes the
\* call when the list is not empty, other callers of the service with any
\* list
ResolveDuplicates(config, now) ==
    /\ pc = "detected"
    /\ UNCHANGED utilVars
    /\ resolution' = config
    /\ atCall' = [heap |-> heap, artworkProducts |-> artworkProducts, wooProducts |-> wooProducts]
    /\ \E r \in {resolveDuplicates(productModel, heap, usedHandles, duplicates,
                                   artworkProducts, wooProducts, config, now)} :
          \/ /\ r.kind = "return"
             /\ Returned(r)
             /\ UNCHANGED <<error, dupeIndex, invoked>>
          \/ /\ r.kind = "throw"
             /\ pc' = "failed"
             /\ error' = r.error
             /\ UNCHANGED <<heap, usedHandles, result, dupeIndex, invoked>>
          \/ /\ r.kind = "ask"
             /\ pc' = "awaiting"
             /\ dupeIndex' = 1
             /\ invoked' = <<1>>
             /\ UNCHANGED <<heap, usedHandles, result, error>>
    /\ UNCHANGED <<productModel, artworkProducts, wooProducts, detection, duplicates,
                   toRemoveFromWoo, toRemoveFromArtwork, toRenameWoo, settled>>

\* the three sets of askForEachDuplicate
choiceSets ==
    [toRemoveFromWoo |-> toRemoveFromWoo, toRemoveFromArtwork |-> toRemoveFromArtwork,
     toRenameWoo |-> toRenameWoo]

\* an askForEachDuplicate that does not await: it invokes onManualChoice for
\* the next match while the invocation for this one is outstanding
InvokingWithoutAwait(choice, now) ==
    /\ pc = "awaiting"
    /\ UNCHANGED utilVars
    /\ dupeIndex < Len(duplicates)
    /\ dupeIndex' = dupeIndex + 1
    /\ invoked' = Append(invoked, dupeIndex + 1)
    /\ UNCHANGED <<productModel, heap, artworkProducts, wooProducts, usedHandles, pc, detection,
                   duplicates, resolution, toRemoveFromWoo, toRemoveFromArtwork, toRenameWoo,
                   settled, result, error, atCall>>

\* an askForEachDuplicate that applies each choice as soon as it is made
ApplyingEachChoiceAtOnce(choice, now) ==
    /\ pc = "awaiting"
    /\ UNCHANGED utilVars
    /\ settled' = settled + 1
    /\ \E sets \in {recordChoice(choiceSets, choice, duplicates[dupeIndex])} :
          /\ toRemoveFromWoo' = sets.toRemoveFromWoo
          /\ toRemoveFromArtwork' = sets.toRemoveFromArtwork
          /\ toRenameWoo' = sets.toRenameWoo
          /\ \E r \in {applyChoices(productModel, heap, usedHandles, artworkProducts,
                                    wooProducts, sets.toRemoveFromWoo,
                                    sets.toRemoveFromArtwork, sets.toRenameWoo, now)} :
                /\ heap' = r.h
                /\ usedHandles' = r.used
                /\ \/ /\ dupeIndex < Len(duplicates)
                      /\ dupeIndex' = dupeIndex + 1
                      /\ invoked' = Append(invoked, dupeIndex + 1)
                      /\ UNCHANGED <<pc, result>>
                   \/ /\ dupeIndex >= Len(duplicates)
                      /\ pc' = "done"
                      /\ result' = [artworkProducts |-> r.artworkProducts,
                                    wooProducts |-> r.wooProducts]
                      /\ UNCHANGED <<dupeIndex, invoked>>
    /\ UNCHANGED <<productModel, artworkProducts, wooProducts, detection, duplicates,
                   resolution, error, atCall>>

\* askForEachDuplicate from the moment onManualChoice resolves with a choice
\* to the next await, or to the return after the last match
OnManualChoiceResolves(choice, now) ==
    /\ pc = "awaiting"
    /\ UNCHANGED utilVars
    /\ settled' = settled + 1
    /\ \E sets \in {recordChoice(choiceSets, choice, duplicates[dupeIndex])} :
          /\ toRemoveFromWoo' = sets.toRemoveFromWoo
          /\ toRemoveFromArtwork' = sets.toRemoveFromArtwork
          /\ toRenameWoo' = sets.toRenameWoo
          /\ \/ /\ dupeIndex < Len(duplicates)
                /\ dupeIndex' = dupeIndex + 1
                /\ invoked' = Append(invoked, dupeIndex + 1)
                /\ UNCHANGED <<pc, heap, usedHandles, result>>
             \/ /\ dupeIndex >= Len(duplicates)
                /\ \E r \in {applyChoices(productModel, heap, usedHandles, artworkProducts,
                                          wooProducts, sets.toRemoveFromWoo,
                                          sets.toRemoveFromArtwork, sets.toRenameWoo, now)} :
                      Returned(r)
                /\ UNCHANGED <<dupeIndex, invoked>>
    /\ UNCHANGED <<productModel, artworkProducts, wooProducts, detection, duplicates,
                   resolution, error, atCall>>

\* an askForEachDuplicate that catches the rejection, applies the choices
\* made so far and throws afterwards
FailingAfterApplying ==
    /\ pc = "awaiting"
    /\ UNCHANGED utilVars
    /\ settled' = settled + 1
    /\ pc' = "failed"
    /\ error' = ManualChoiceFailed
    /\ \E
          r \in {applyChoices(productModel, heap, usedHandles, artworkProducts, wooProducts,
                              toRemoveFromWoo, toRemoveFromArtwork, toRenameWoo, now) :
                     now \in Timestamps} :
          /\ heap' = r.h
          /\ usedHandles' = r.used
    /\ UNCHANGED <<productModel, artworkProducts, wooProducts, detection,
                   duplicates, resolution, dupeIndex, toRemoveFromWoo, toRemoveFromArtwork,
                   toRenameWoo, invoked, result, atCall>>

\* the promise of onManualChoice rejects: the await throws out of
\* askForEachDuplicate and of resolveDuplicates
OnManualChoiceRejects ==
    /\ pc = "awaiting"
    /\ UNCHANGED utilVars
    /\ settled' = settled + 1
    /\ pc' = "failed"
    /\ error' = ManualChoiceFailed
    /\ UNCHANGED <<productModel, heap, artworkProducts, wooProducts, usedHandles, detection,
                   duplicates, resolution, dupeIndex, toRemoveFromWoo, toRemoveFromArtwork,
                   toRenameWoo, invoked, result, atCall>>

\* the exports hold at most n records together
AtMostRows(n) == Len(heap) < n

Next ==
    \/ \E name \in ArtworkNames, vendor \in ArtworkVendors, now \in Timestamps :
          AtMostRows(MaxRows) /\ ConvertArtwork(name, vendor, now)
    \/ \E post_title \in WooTitles, sku \in {WooSkus[k] : k \in 1..Len(WooSkus)}, now \in Timestamps :
          AtMostRows(MaxRows) /\ ConvertWoo(post_title, sku, now)
    \/ AtMostRows(MaxRows) /\ CreateAdditionalImageRow
    \/ \E config \in DetectionConfigs : DetectDuplicates(config)
    \/ \E config \in ResolutionConfigs, now \in Timestamps : ResolveDuplicates(config, now)
    \/ \E choice \in Choices, now \in Timestamps : OnManualChoiceResolves(choice, now)
    \/ OnManualChoiceRejects

Spec == Init /\ [][Next]_vars

(***************************************************************************)
(* The conversions and the detection on their own, with titles that differ *)
(* by a generic prefix, two artists and thresholds.                        *)
(***************************************************************************)
Vases == <<"V", "a", "s", "e", "s">>

ObraVases == <<"O", "b", "r", "a", " ", "V", "a", "s", "e", "s">>

DetectionTitles == {Vases, ObraVases, Bangs}

\* ArtworkToShopifyConverter.getVendor without Artist(s)
UnknownArtist == <<"U", "n", "k", "n", "o", "w", "n", " ", "A", "r", "t", "i", "s", "t">>

DetectionVendors == {ImpulsoGaleria, UnknownArtist}

DetectionTimestamp == <<"1", "7", "6", "0", "0", "0", "0", "0", "0", "0", "0", "0", "1">>

Half == [num |-> 1, den |-> 2]

\* the thresholds a DuplicateDetectionConfig is given, all in (0,1]
Thresholds == {NoThreshold, Half, One}

ThresholdConfigs ==
    {[matchingStrategy |-> s, similarityThreshold |-> NoThreshold] :
        s \in {"exactTitle", "normalizedTitle", "advanced"}}
        \cup {[matchingStrategy |-> "fuzzy", similarityThreshold |-> t] : t \in Thresholds}

\* the detection reads titles, vendors, SKUs and statuses only, which the two
\* ShopifyProduct classes set alike: one class is enough here
InitDetection == Init /\ productModel = "generateHandle"

NextDetection ==
    \/ \E name \in DetectionTitles, vendor \in DetectionVendors :
          AtMostRows(MaxRows) /\ ConvertArtwork(name, vendor, DetectionTimestamp)
    \/ \E post_title \in DetectionTitles, sku \in {WooSkus[k] : k \in 1..Len(WooSkus)} :
          AtMostRows(MaxRows) /\ ConvertWoo(post_title, sku, DetectionTimestamp)
    \/ AtMostRows(MaxRows) /\ CreateAdditionalImageRow
    \/ \E config \in ThresholdConfigs : DetectDuplicates(config)

SpecDetection == InitDetection /\ [][NextDetection]_vars

(***************************************************************************)
(* The detection with the strategy fuzzy on longer exports, with a title   *)
(* that is close to another and has another normalized title.              *)
(***************************************************************************)
MaxFuzzyRows == 4

Vase == <<"V", "a", "s", "e">>

FuzzyTitles == {Vases, ObraVases, Vase}

FuzzyConfigs ==
    {[matchingStrategy |-> "fuzzy", similarityThreshold |-> t] : t \in {NoThreshold, Half}}

NextFuzzy ==
    \/ \E name \in FuzzyTitles :
          AtMostRows(MaxFuzzyRows) /\ ConvertArtwork(name, ImpulsoGaleria, DetectionTimestamp)
    \/ \E post_title \in FuzzyTitles, sku \in {WooSkus[k] : k \in 1..Len(WooSkus)} :
          AtMostRows(MaxFuzzyRows) /\ ConvertWoo(post_title, sku, DetectionTimestamp)
    \/ \E config \in FuzzyConfigs : DetectDuplicates(config)

SpecFuzzy == InitDetection /\ [][NextFuzzy]_vars

(***************************************************************************)
(* The functions of normalizeFields called on their own.                   *)
(***************************************************************************)
\* the words of a title
MaxWords == 3

\* the characters of each argument of getSimilarity
MaxPairLen == 3

TitleWords ==
    <<<<"O", "b", "r", "a">>, <<"S", "e", "r", "i", "e">>, <<"S", "i", "n">>, <<"T", "i+acute", "t", "u", "l", "o">>, <<"E", "d", "i", "c", "i", "o+acute", "n">>,
      <<"R", "e", "p", "r", "o", "d", "u", "c", "c", "i", "o", "n">>, <<"R", "e", "d">>, <<"S", "/", "T">>>>

PairChars == {"a", "B", "!"}

\* words.join(' ')
RECURSIVE joined(_)
joined(words) ==
    IF words = <<>> THEN <<>>
    ELSE IF Len(words) = 1 THEN words[1]
    ELSE words[1] \o <<" ">> \o joined(Tail(words))

\* the strings of at most n of the words
phrases(words, n) ==
    UNION {{joined([i \in 1..k |-> words[pick[i]]]) : pick \in [1..k -> 1..Len(words)]} :
              k \in 0..n}

\* the strings of at most n of the characters
strings(chars, n) == UNION {[1..k -> chars] : k \in 0..n}

KeyTitles == {<<>>, <<" ", " ", "O", "b", "r", "a", " ", "R", "E", "D", ".", "V", "a", "s", "e", " ">>, <<"S", "i", "n", " ", "T", "i+acute", "t", "u", "l", "o">>, <<"R", "e", "d", " ", "V", "a", "s", "e", " ", "E", "d", "i", "c", "i", "o", "n">>}

KeyArtists == {<<>>, <<"D", "r", "a", ".", " ", "A", "n", "a", " ", "P", "a", "z", " ", "J", "r">>, ImpulsoGaleria}

KeyDimensions == {<<>>, <<"1", "0", " ", "x", " ", "2", "0", " ", "c", "m">>}

KeyStrategies == {"exactTitle", "normalizedTitle", "advanced", "fuzzy", "exact"}

TitleArgs == {[fn |-> "normalizeTitle", title |-> t] : t \in phrases(TitleWords, MaxWords)}

SimilarityArgs ==
    {[fn |-> "getSimilarity", str1 |-> a, str2 |-> b] :
        a \in strings(PairChars, MaxPairLen), b \in strings(PairChars, MaxPairLen)}

KeyArgs ==
    {[fn |-> "generateComparisonKeys", title |-> t, artist |-> a, dimensions |-> d,
      matchingStrategy |-> s] :
        t \in KeyTitles, a \in KeyArtists, d \in KeyDimensions, s \in KeyStrategies}

InitNormalizeFields ==
    /\ Constructed
    /\ args \in TitleArgs \cup SimilarityArgs \cup KeyArgs
    /\ value = NoValue

programVars ==
    <<productModel, heap, artworkProducts, wooProducts, usedHandles, pc, detection,
      duplicates, resolutionVars>>

\* NormalizeUtils.normalizeTitle(title)
NormalizeTitle ==
    /\ args.fn = "normalizeTitle"
    /\ value = NoValue
    /\ value' = [returned |-> normalizeTitle(args.title)]
    /\ UNCHANGED <<args, programVars>>

\* NormalizeUtils.getSimilarity(str1, str2)
GetSimilarity ==
    /\ args.fn = "getSimilarity"
    /\ value = NoValue
    /\ value' = [returned |-> getSimilarity(args.str1, args.str2)]
    /\ UNCHANGED <<args, programVars>>

\* generateComparisonKeys(title, artist, dimensions, matchingStrategy)
GenerateComparisonKeys ==
    /\ args.fn = "generateComparisonKeys"
    /\ value = NoValue
    /\ value' = [returned |-> generateComparisonKeys(args.title, args.artist, args.dimensions,
                                                     args.matchingStrategy)]
    /\ UNCHANGED <<args, programVars>>

NextNormalizeFields == NormalizeTitle \/ GenerateComparisonKeys \/ GetSimilarity

SpecNormalizeFields == InitNormalizeFields /\ [][NextNormalizeFields]_vars

(***************************************************************************)
(* HandleGeneratorService on its own: calls of its three public methods    *)
(* on the registry, in any order.                                          *)
(***************************************************************************)
MaxHandles == 4

RedVaseOne == <<"R", "e", "d", " ", "V", "a", "s", "e", " ", "1">>

HandleTitles == {RedVase, RedVaseOne, Bangs}

HandleSkus == {<<>>, <<"W", "O", "O", "-", "1">>}

\* the rows prisma.product.findMany returns
ExistingProducts ==
    {<<>>,
     <<[handle |-> <<"r", "e", "d", "-", "v", "a", "s", "e">>]>>,
     <<[handle |-> <<"r", "e", "d", "-", "v", "a", "s", "e", "-", "1">>], [handle |-> <<>>]>>}

InitHandles == Init /\ productModel = "HandleGeneratorService"

serviceFrame ==
    <<productModel, heap, artworkProducts, wooProducts, pc, detection, duplicates,
      resolutionVars>>

\* HandleGeneratorService.generateUniqueHandle(title, sku, sourceType) at the
\* time now, on the registry usedHandles
GenerateUniqueHandle(title, sku, sourceType, now) ==
    /\ args' = [fn |-> "generateUniqueHandle", title |-> title, sku |-> sku,
                sourceType |-> sourceType, now |-> now, usedHandles |-> usedHandles]
    /\ \E uniqueHandle \in {generateUniqueHandle(title, sku, sourceType, now, usedHandles)} :
          /\ usedHandles' = usedHandles \cup {uniqueHandle}
          /\ value' = [returned |-> uniqueHandle]
    /\ UNCHANGED serviceFrame

\* existingProducts.forEach(product => { if (product.handle) usedHandles.add(product.handle) })
loadedHandles(existingProducts) ==
    {existingProducts[i].handle : i \in 1..Len(existingProducts)} \ {<<>>}

\* HandleGeneratorService.loadExistingHandles(prisma): findMany resolves with
\* the rows, or rejects and the catch block only warns
LoadExistingHandles(existingProducts, rejects) ==
    /\ args' = [fn |-> "loadExistingHandles", existingProducts |-> existingProducts,
                rejects |-> rejects, usedHandles |-> usedHandles]
    /\ usedHandles' =
          IF rejects THEN usedHandles ELSE usedHandles \cup loadedHandles(existingProducts)
    /\ value' = [returned |-> Undefined]
    /\ UNCHANGED serviceFrame

\* HandleGeneratorService.clearUsedHandles()
ClearUsedHandles ==
    /\ args' = [fn |-> "clearUsedHandles", usedHandles |-> usedHandles]
    /\ usedHandles' = {}
    /\ value' = [returned |-> Undefined]
    /\ UNCHANGED serviceFrame

\* the registry holds fewer than n handles
RegistryBelow(n) == Cardinality(usedHandles) < n

NextHandles ==
    \/ \E title \in HandleTitles, sku \in HandleSkus, now \in Timestamps :
          RegistryBelow(MaxHandles) /\ GenerateUniqueHandle(title, sku, <<>>, now)
    \/ \E existingProducts \in ExistingProducts, rejects \in BOOLEAN :
          RegistryBelow(MaxHandles) /\ LoadExistingHandles(existingProducts, rejects)
    \/ ClearUsedHandles

SpecHandles == InitHandles /\ [][NextHandles]_vars

(***************************************************************************)
(* The properties.                                                         *)
(***************************************************************************)
rowsOf(products) == {products[i] : i \in 1..Len(products)}

mainRowsOf(h, products) == {id \in rowsOf(products) : IsMainRow(h, id)}

imageRowsOf(h, products) == {id \in rowsOf(products) : ~IsMainRow(h, id)}

Called == resolution # NoConfig

Resolved == pc = "done"

StrategyIs(s) == Called /\ resolution.strategy = s

KnownStrategies == {"keepBoth", "preferArtwork", "preferWoo", "ask"}

matchesOf == {duplicates[k] : k \in 1..Len(duplicates)}

\* the rows i and j are the two records of a reported match
IsReportedPair(i, j) == \E d \in matchesOf : {d.artworkRow, d.wooRow} = {i, j}

\* before the resolution the only main rows sharing a handle are the two
\* records of a reported match
OnlyMatchesShareHandle ==
    \A i, j \in mainRowsOf(atCall.heap, atCall.artworkProducts)
                    \cup mainRowsOf(atCall.heap, atCall.wooProducts) :
        (i # j /\ getHandle(atCall.heap, i) = getHandle(atCall.heap, j)) => IsReportedPair(i, j)

\* no two main rows of the returned collections carry the same handle
MainHandlesUnique ==
    \A i, j \in mainRowsOf(heap, result.artworkProducts) \cup mainRowsOf(heap, result.wooProducts) :
        i # j => getHandle(heap, i) # getHandle(heap, j)

\* C1: after resolveDuplicates with one of the four strategies, applied to
\* the matches detectDuplicates reported for the same collections, no two
\* main rows of the returned collections carry the same handle, provided
\* that before the resolution only the two records of a reported match
\* shared a handle.
C1_MainHandlesUniqueAfterResolution ==
    (Resolved /\ resolution.strategy \in KnownStrategies /\ OnlyMatchesShareHandle)
        => MainHandlesUnique

\* every choice made was 'both', or the strategy is keepBoth
OnlyKeepBothRenames ==
    \/ StrategyIs("keepBoth")
    \/ StrategyIs("ask") /\ toRemoveFromWoo = {} /\ toRemoveFromArtwork = {}

\* C2: after a keep-both rename (keepBoth, or ask with the choice 'both'),
\* every image row of the secondary collection whose handle was the handle
\* of a main row before the resolution carries the handle of a main row of
\* the returned secondary collection.
C2_ImageRowsFollowTheRename ==
    (Resolved /\ OnlyKeepBothRenames /\ duplicates # <<>>)
        => \A img \in imageRowsOf(heap, result.wooProducts) :
              (\E m \in mainRowsOf(atCall.heap, atCall.wooProducts) :
                    getHandle(atCall.heap, m) = getHandle(atCall.heap, img))
                 => \E m \in mainRowsOf(heap, result.wooProducts) :
                       getHandle(heap, m) = getHandle(heap, img)

\* the secondary main rows that carry the secondary SKU of a match
matchedWooRows ==
    {id \in mainRowsOf(atCall.heap, atCall.wooProducts) :
        \E d \in matchesOf : getSKU(atCall.heap, id) = d.wooSKU}

\* the primary collection is returned with the rows and the fields it had
PrimaryUnchanged ==
    /\ result.artworkProducts = atCall.artworkProducts
    /\ \A id \in rowsOf(atCall.artworkProducts) : heap[id] = atCall.heap[id]

\* the secondary collection is returned with the rows and the fields it had
SecondaryUnchanged ==
    /\ result.wooProducts = atCall.wooProducts
    /\ \A id \in rowsOf(atCall.wooProducts) : heap[id] = atCall.heap[id]

\* C3: with keepBoth every secondary main row that carries the secondary
\* SKU of a match ends with its old title followed by " (WooCommerce)" and
\* its old handle followed by "-woo", and the primary collection is returned
\* unchanged.
C3_KeepBothAppendsSuffixes ==
    (Resolved /\ StrategyIs("keepBoth"))
        => /\ \A id \in matchedWooRows :
                /\ getTitle(heap, id) = getTitle(atCall.heap, id) \o WooCommerceTitleSuffix
                /\ getHandle(heap, id) = getHandle(atCall.heap, id) \o WooHandleSuffix
           /\ PrimaryUnchanged

\* C4: with preferArtwork no secondary main row that carries the secondary
\* SKU of a match is in the returned secondary collection, and every
\* secondary row with an empty SKU still is.
C4_PreferArtworkRemovesMatchedRows ==
    (Resolved /\ StrategyIs("preferArtwork"))
        => /\ \A id \in matchedWooRows : id \notin rowsOf(result.wooProducts)
           /\ \A id \in rowsOf(atCall.wooProducts) :
                 getSKU(atCall.heap, id) = <<>> => id \in rowsOf(result.wooProducts)

\* a matched secondary main row was removed and an image row stayed
C4_Witness ==
    /\ Resolved /\ StrategyIs("preferArtwork")
    /\ matchedWooRows # {}
    /\ imageRowsOf(heap, result.wooProducts) # {}
    /\ Len(result.wooProducts) < Len(atCall.wooProducts)

\* the primary rows preferWoo keeps
keptPrimaryRows ==
    {id \in rowsOf(atCall.artworkProducts) :
        \/ getSKU(atCall.heap, id) = <<>>
        \/ \A d \in matchesOf : d.artworkSKU # getSKU(atCall.heap, id)}

\* the position of a row in a collection that holds it once
positionIn(products, id) == CHOOSE i \in 1..Len(products) : products[i] = id

\* the rows of kept are rows of products, each once and in the order of
\* products
InOrderOf(kept, products) ==
    /\ \A i \in 1..Len(kept) : kept[i] \in rowsOf(products)
    /\ \A i, j \in 1..Len(kept) :
          i < j => positionIn(products, kept[i]) < positionIn(products, kept[j])

\* C5: with preferWoo the returned primary collection holds exactly the
\* input primary rows whose SKU is empty or is the primary SKU of no match,
\* in their original order, and the secondary collection is returned with
\* the same rows and fields.
C5_PreferWooFiltersPrimary ==
    (Resolved /\ StrategyIs("preferWoo"))
        => /\ rowsOf(result.artworkProducts) = keptPrimaryRows
           /\ InOrderOf(result.artworkProducts, atCall.artworkProducts)
           /\ \A id \in keptPrimaryRows : heap[id] = atCall.heap[id]
           /\ SecondaryUnchanged

\* a primary row was removed and another, after it or before it, was kept
C5_Witness ==
    /\ Resolved /\ StrategyIs("preferWoo")
    /\ Len(result.artworkProducts) >= 1
    /\ Len(result.artworkProducts) < Len(atCall.artworkProducts)

AskWithoutHandler == StrategyIs("ask") /\ ~resolution.onManualChoice

\* nothing was processed and nothing was mutated
NothingProcessed ==
    /\ invoked = <<>>
    /\ toRemoveFromWoo = {} /\ toRemoveFromArtwork = {} /\ toRenameWoo = {}
    /\ heap = atCall.heap
    /\ artworkProducts = atCall.artworkProducts
    /\ wooProducts = atCall.wooProducts

FailedWith(message) == pc = "failed" /\ error = message /\ result = NoResult

\* the call returned the two collections it was given, every row as it was
ReturnedUnchanged ==
    /\ Resolved
    /\ result = [artworkProducts |-> atCall.artworkProducts, wooProducts |-> atCall.wooProducts]
    /\ heap = atCall.heap

\* C6 as stated: with the strategy ask and no callback resolveDuplicates
\* fails with the configuration error for every match list, before any
\* match is processed and with neither collection mutated.
C6_AskWithoutHandlerAlwaysFails ==
    AskWithoutHandler => (FailedWith(ManualChoiceRequired) /\ NothingProcessed)

\* C6 amended: with the strategy ask and no callback resolveDuplicates fails
\* with the configuration error for every match list that is not empty,
\* before any match is processed and with neither collection mutated; for
\* the empty match list it returns both collections unchanged and raises
\* nothing.
C6_AskWithoutHandlerFailsOnMatches ==
    AskWithoutHandler
        => /\ NothingProcessed
           /\ IF duplicates = <<>> THEN ReturnedUnchanged /\ error = NoError
              ELSE FailedWith(ManualChoiceRequired)

\* the configuration error was raised for a match list that is not empty
C6_Witness ==
    /\ AskWithoutHandler /\ duplicates # <<>>
    /\ FailedWith(ManualChoiceRequired)
    /\ wooProducts # <<>>

UnknownStrategyCalled == Called /\ resolution.strategy \notin KnownStrategies

\* C7 as stated: with a strategy name that is none of the four
\* resolveDuplicates fails with the configuration error for every match
\* list, before any processing, and leaves both collections unmodified.
C7_UnknownStrategyAlwaysFails ==
    UnknownStrategyCalled => (FailedWith(UnknownStrategy) /\ NothingProcessed)

\* C7 amended: with a strategy name that is none of the four
\* resolveDuplicates fails with the configuration error for every match
\* list that is not empty, before any processing, and leaves both
\* collections unmodified; for the empty match list it returns both
\* collections unchanged and raises nothing.
C7_UnknownStrategyFailsOnMatches ==
    UnknownStrategyCalled
        => /\ NothingProcessed
           /\ IF duplicates = <<>> THEN ReturnedUnchanged /\ error = NoError
              ELSE FailedWith(UnknownStrategy)

\* the configuration error was raised for an unknown strategy and a match
C7_Witness ==
    /\ UnknownStrategyCalled /\ Len(duplicates) >= 1
    /\ FailedWith(UnknownStrategy)
    /\ artworkProducts # <<>>

\* C8: called with an empty match list resolveDuplicates returns both
\* collections unchanged whatever the strategy: the collections returned are
\* the ones passed in, the rows in the same order and every field of every
\* row as it was, and the callback is never invoked.
C8_EmptyMatchListReturnsUnchanged ==
    (Called /\ duplicates = <<>>)
        => /\ ReturnedUnchanged
           /\ error = NoError
           /\ invoked = <<>> /\ settled = 0

\* the strategy ask with its callback returned two collections, neither
\* empty, for an empty match list
C8_Witness ==
    /\ StrategyIs("ask") /\ resolution.onManualChoice
    /\ duplicates = <<>>
    /\ Resolved
    /\ result.artworkProducts # <<>> /\ result.wooProducts # <<>>

AskWithHandler == StrategyIs("ask") /\ resolution.onManualChoice

\* C9: with the strategy ask the callback is invoked once for each match, in
\* the order of the match list, and the invocation for a match starts only
\* when the invocation for the match before it has completed: never are two
\* invocations outstanding.
C9_OneInvocationAtATime ==
    /\ \A i \in 1..Len(invoked) : invoked[i] = i
    /\ Len(invoked) <= Len(duplicates)
    /\ Len(invoked) - settled \in {0, 1}
    /\ pc = "awaiting" => Len(invoked) = settled + 1
    /\ (AskWithHandler /\ Resolved /\ duplicates # <<>>)
          => (Len(invoked) = Len(duplicates) /\ settled = Len(duplicates))

\* the callback was awaited for a second match
C9_Witness ==
    /\ AskWithHandler /\ Resolved
    /\ Len(duplicates) >= 2
    /\ invoked = <<1, 2>>

\* C10: with the strategy ask no row of either collection is renamed or
\* removed until the callback has returned a choice for every match: while
\* an invocation is outstanding both collections have the rows and the field
\* values they had when resolveDuplicates was called.
C10_NothingAppliedWhileAsking ==
    pc = "awaiting"
        => /\ heap = atCall.heap
           /\ artworkProducts = atCall.artworkProducts
           /\ wooProducts = atCall.wooProducts
           /\ result = NoResult

\* the callback is asked about the second match after it chose 'both' or a
\* removal for the first
C10_Witness ==
    /\ pc = "awaiting"
    /\ Len(invoked) = 2
    /\ toRenameWoo \cup toRemoveFromWoo \cup toRemoveFromArtwork # {}

(***************************************************************************)
(* The claims about DuplicateDetectionService.                             *)
(***************************************************************************)
\* detectDuplicates has returned and nothing has touched the rows since
Detected == pc = "detected"

DetectedWith(s) == Detected /\ detection.matchingStrategy = s

artworkMainRows == mainRowsOf(heap, artworkProducts)

wooMainRows == mainRowsOf(heap, wooProducts)

SameNormalizedTitle(a, w) ==
    normalizeTitle(getTitle(heap, a)) = normalizeTitle(getTitle(heap, w))

\* the matches of the list that compared the secondary row w
matchesOfRow(w) == {i \in 1..Len(duplicates) : duplicates[i].wooRow = w}

PairsTheSKUs(d, a, w) ==
    d.artworkSKU = getSKU(heap, a) /\ d.wooSKU = getSKU(heap, w)

\* the primary main rows whose normalized title is that of the secondary row w
sameTitleRows(w) == {a \in artworkMainRows : SameNormalizedTitle(a, w)}

acceptedMatches ==
    collectMatches(heap, detection, withTitle(heap, wooProducts),
                   createProductMap(heap, detection, artworkProducts), <<>>)

\* the threshold the claims give a configuration: the one supplied, or 0.8
claimedThreshold ==
    IF detection.similarityThreshold = NoThreshold THEN [num |-> 4, den |-> 5]
    ELSE detection.similarityThreshold

SameFraction(a, b) == a.num * b.den = b.num * a.den

titleSimilarity(w, a) == getSimilarity(getTitle(heap, w), getTitle(heap, a))

AtLeastThreshold(w, a) == ~Less(titleSimilarity(w, a), claimedThreshold)

\* the secondary row w and the primary row a, which findMatches probes, are
\* the two rows of an accepted match
IsAccepted(accepted, w, a) ==
    \E i \in 1..Len(accepted) : accepted[i].wooRow = w /\ accepted[i].artworkRow = a

\* C12: with the strategy fuzzy, a probed pair of rows yields a match exactly
\* when the similarity of the two titles is at least the threshold supplied,
\* or at least 0.8 when none is supplied; every match reported has such a
\* similarity
C12_FuzzyAcceptsAtThreshold ==
    DetectedWith("fuzzy") =>
        /\ \E accepted \in {acceptedMatches} :
              \A w \in wooMainRows :
                  \A a \in sameTitleRows(w) :
                      IsAccepted(accepted, w, a) <=> AtLeastThreshold(w, a)
        /\ \A i \in 1..Len(duplicates) :
              /\ duplicates[i].similarity =
                    titleSimilarity(duplicates[i].wooRow, duplicates[i].artworkRow)
              /\ AtLeastThreshold(duplicates[i].wooRow, duplicates[i].artworkRow)

\* without a threshold supplied, one probed pair is skipped and another is
\* reported; with the threshold 1/2, a pair of similarity 1/2 is reported
C12_Witness ==
    /\ DetectedWith("fuzzy")
    /\ \/ /\ detection.similarityThreshold = NoThreshold
          /\ \E w \in wooMainRows :
                \E a \in sameTitleRows(w) : ~AtLeastThreshold(w, a)
          /\ duplicates # <<>>
       \/ /\ detection.similarityThreshold = Half
          /\ \E i \in 1..Len(duplicates) : SameFraction(duplicates[i].similarity, Half)

\* the accepted matches of one secondary SKU, by their place in the list
acceptedOfSKU(accepted, sku) == {k \in 1..Len(accepted) : accepted[k].wooSKU = sku}

\* accepted[k] is of the highest similarity among the accepted matches of its
\* SKU and is the first of these
IsFirstBest(accepted, k) ==
    \A j \in acceptedOfSKU(accepted, accepted[k].wooSKU) :
        /\ ~Less(accepted[k].similarity, accepted[j].similarity)
        /\ j < k => Less(accepted[j].similarity, accepted[k].similarity)

\* C13: with the strategy fuzzy, the list returned holds at most one match
\* for each secondary SKU, and that match is, among the matches accepted for
\* the SKU, the first of those of the highest similarity
C13_FuzzyKeepsFirstBestPerSKU ==
    DetectedWith("fuzzy") =>
        /\ \A i, j \in 1..Len(duplicates) :
              duplicates[i].wooSKU = duplicates[j].wooSKU => i = j
        /\ \E accepted \in {acceptedMatches} :
              /\ \A i \in 1..Len(duplicates) :
                    \E k \in 1..Len(accepted) :
                        accepted[k] = duplicates[i] /\ IsFirstBest(accepted, k)
              /\ \A k \in 1..Len(accepted) :
                    \E i \in 1..Len(duplicates) : duplicates[i].wooSKU = accepted[k].wooSKU

\* a SKU with two accepted matches, the second of them the more similar and
\* the one reported
C13_Witness ==
    /\ DetectedWith("fuzzy")
    /\ \E accepted \in {acceptedMatches} :
          \E j, k \in 1..Len(accepted) :
              /\ j < k
              /\ accepted[j].wooSKU = accepted[k].wooSKU
              /\ Less(accepted[j].similarity, accepted[k].similarity)
              /\ \E i \in 1..Len(duplicates) : duplicates[i] = accepted[k]

NonFuzzy == Detected /\ detection.matchingStrategy \in {"exactTitle", "normalizedTitle", "advanced"}

\* the comparison keys of every row
keysOfRows == [id \in 1..Len(heap) |-> productKeys(heap, detection, id)]

\* the primary main rows findMatches finds under the k-th key of the
\* secondary row w and accepts
acceptedUnderKey(keys, w, k) ==
    {a \in artworkMainRows :
        /\ \E j \in 1..Len(keys[a]) : keys[a][j] = keys[w][k]
        /\ createDuplicateMatch(heap, detection, w, a) # NoMatch}

\* the keys of w under which a candidate is accepted
acceptingKeys(keys, w) == {k \in 1..Len(keys[w]) : acceptedUnderKey(keys, w, k) # {}}

\* a is the earliest row of the primary collection among the rows of s
IsEarliestOf(a, s) ==
    /\ a \in s
    /\ \A b \in s : positionIn(artworkProducts, a) <= positionIn(artworkProducts, b)

\* a is the earliest candidate accepted under the first accepting key of w
IsFirstAccepted(keys, w, a) ==
    \E accepting \in {acceptingKeys(keys, w)} :
        \E k \in accepting :
            /\ \A j \in accepting : k <= j
            /\ IsEarliestOf(a, acceptedUnderKey(keys, w, k))

\* C20: with exactTitle, normalizedTitle and advanced, the list holds at most
\* one match for each secondary main row; it holds one when a candidate is
\* accepted under one of the keys of the row, and the match is then with the
\* earliest primary row accepted under the first such key
C20_NonFuzzyStopsAtFirstAccepted ==
    NonFuzzy =>
        \E keys \in {keysOfRows} :
            \A w \in wooMainRows :
                /\ Cardinality(matchesOfRow(w)) <= 1
                /\ matchesOfRow(w) # {} <=> acceptingKeys(keys, w) # {}
                /\ \A i \in matchesOfRow(w) : IsFirstAccepted(keys, w, duplicates[i].artworkRow)

\* with advanced, a secondary row matched with a primary row of its title and
\* artist, a primary row of the same title and another artist coming earlier
C20_Witness ==
    /\ DetectedWith("advanced")
    /\ \E w \in wooMainRows :
          \E i \in matchesOfRow(w) :
              \E b \in sameTitleRows(w) :
                  /\ positionIn(artworkProducts, b)
                        < positionIn(artworkProducts, duplicates[i].artworkRow)
                  /\ Cardinality(matchesOfRow(w)) = 1

\* the place of a row in the secondary collection
scanned(w) == positionIn(wooProducts, w)

\* C21: the list detectDuplicates returns is in the order in which the
\* secondary rows were scanned: of two matches, the one whose secondary row
\* comes earlier in the secondary collection comes earlier in the list
C21_MatchesInScanOrder ==
    Detected =>
        \A i, j \in 1..Len(duplicates) :
            scanned(duplicates[i].wooRow) < scanned(duplicates[j].wooRow) => i < j

\* C25: with the strategy fuzzy, the two rows of every match have the same
\* normalized title, however similar two titles of different normalized
\* titles are
C25_FuzzyMatchesWithinNormalizedTitle ==
    DetectedWith("fuzzy") =>
        \A i \in 1..Len(duplicates) :
            SameNormalizedTitle(duplicates[i].artworkRow, duplicates[i].wooRow)

\* a secondary row and a primary row whose titles are as similar as the
\* threshold asks and whose normalized titles differ: the secondary row has
\* no match, while another secondary row has one
C25_Witness ==
    /\ DetectedWith("fuzzy")
    /\ \E w \in wooMainRows :
          /\ \E a \in artworkMainRows :
                ~SameNormalizedTitle(a, w) /\ AtLeastThreshold(w, a)
          /\ matchesOfRow(w) = {}
    /\ duplicates # <<>>

\* the primary main rows that share a comparison key with the row w
candidatesOf(keys, w) ==
    {a \in artworkMainRows :
        \E j \in 1..Len(keys[a]), k \in 1..Len(keys[w]) : keys[a][j] = keys[w][k]}

\* C22: a row with an empty title, such as an image row, is neither record
\* of any match, and a secondary main row without a candidate has no match;
\* detectDuplicates returns whatever the rows
C22_EmptyTitlesNeverMatch ==
    Detected =>
        /\ \A i \in 1..Len(duplicates) :
              /\ duplicates[i].artworkRow \in artworkMainRows
              /\ duplicates[i].wooRow \in wooMainRows
              /\ duplicates[i].title # <<>>
        /\ \A img \in imageRowsOf(heap, wooProducts) \cup imageRowsOf(heap, artworkProducts) :
              \A i \in 1..Len(duplicates) :
                  duplicates[i].wooRow # img /\ duplicates[i].artworkRow # img
        /\ \E keys \in {keysOfRows} :
              \A w \in wooMainRows : candidatesOf(keys, w) = {} => matchesOfRow(w) = {}

\* an image row whose empty title has the key of a primary row, after a
\* secondary main row without a candidate: nothing is reported
C22_Witness ==
    /\ DetectedWith("normalizedTitle")
    /\ imageRowsOf(heap, wooProducts) # {}
    /\ \E a \in artworkMainRows : normalizeTitle(getTitle(heap, a)) = <<>>
    /\ \E keys \in {keysOfRows} : \E w \in wooMainRows : candidatesOf(keys, w) = {}
    /\ duplicates = <<>>

SameNormalizedArtist(a, w) ==
    normalizeArtist(getVendor(heap, a)) = normalizeArtist(getVendor(heap, w))

TitleAndArtist == <<"t", "i", "t", "l", "e", "+", "a", "r", "t", "i", "s", "t">>

TitleOnly == <<"t", "i", "t", "l", "e", " ", "o", "n", "l", "y">>

\* C23: with the strategy advanced, the two rows of every match have the same
\* normalized title; the matchType is 'title+artist' when their vendors have
\* the same normalized artist and 'title only' when they have not; no
\* candidate found through a key is rejected
C23_AdvancedMatchTypes ==
    DetectedWith("advanced") =>
        /\ \A i \in 1..Len(duplicates) :
              /\ SameNormalizedTitle(duplicates[i].artworkRow, duplicates[i].wooRow)
              /\ duplicates[i].matchType =
                    IF SameNormalizedArtist(duplicates[i].artworkRow, duplicates[i].wooRow)
                    THEN TitleAndArtist ELSE TitleOnly
        /\ \E keys \in {keysOfRows} :
              \A w \in wooMainRows :
                  \A a \in candidatesOf(keys, w) :
                      createDuplicateMatch(heap, detection, w, a) # NoMatch

\* a match of two rows of the same normalized title and of different artists
C23_Witness ==
    /\ DetectedWith("advanced")
    /\ \E i \in 1..Len(duplicates) :
          /\ duplicates[i].matchType = TitleOnly
          /\ getTitle(heap, duplicates[i].artworkRow) # getTitle(heap, duplicates[i].wooRow)
          /\ duplicates[i].artworkArtist # duplicates[i].wooArtist

\* the primary main rows of the normalized title and artist of the row w
sameTitleAndArtistRows(w) == {a \in sameTitleRows(w) : SameNormalizedArtist(a, w)}

\* C24: with the strategy advanced, a secondary main row for which some
\* primary main row has its normalized title and its normalized artist has
\* one match, of matchType 'title+artist' and with such a primary row,
\* whatever the order of the primary rows
C24_AdvancedPrefersTitleAndArtist ==
    DetectedWith("advanced") =>
        \A w \in wooMainRows :
            sameTitleAndArtistRows(w) # {} =>
                /\ Cardinality(matchesOfRow(w)) = 1
                /\ \A i \in matchesOfRow(w) :
                      /\ duplicates[i].artworkRow \in sameTitleAndArtistRows(w)
                      /\ duplicates[i].matchType = TitleAndArtist

\* the first primary row of the title of the secondary row has another
\* artist; the match is with a later row, of the title and the artist
C24_Witness ==
    /\ DetectedWith("advanced")
    /\ \E w \in wooMainRows :
          \E b \in sameTitleRows(w) \ sameTitleAndArtistRows(w) :
              \E i \in matchesOfRow(w) :
                  /\ duplicates[i].matchType = TitleAndArtist
                  /\ positionIn(artworkProducts, b)
                        < positionIn(artworkProducts, duplicates[i].artworkRow)

\* the keys that the rows a and w share
sharedKeys(keys, a, w) ==
    {keys[a][j] : j \in 1..Len(keys[a])} \cap {keys[w][k] : k \in 1..Len(keys[w])}

\* C26: the two rows of every match share a comparison key that is not the
\* empty string; two rows whose keys are all empty are not reported as
\* duplicates of each other
C26_MatchesThroughNonEmptyKeys ==
    Detected =>
        \E keys \in {keysOfRows} :
            \A i \in 1..Len(duplicates) :
                /\ sharedKeys(keys, duplicates[i].artworkRow, duplicates[i].wooRow) \ {<<>>} # {}
                /\ \E k \in 1..Len(keys[duplicates[i].wooRow]) :
                      keys[duplicates[i].wooRow][k] # <<>>

(***************************************************************************)
(* The claims about normalizeFields.                                       *)
(***************************************************************************)
HasReturned(fn) == args # NoArgs /\ args.fn = fn /\ value # NoValue

\* what the claim gives generateComparisonKeys for a title and an artist
claimedKeys(title, artist, matchingStrategy) ==
    IF matchingStrategy = "exactTitle" THEN <<trim(toLowerCase(title))>>
    ELSE IF matchingStrategy = "normalizedTitle" THEN <<normalizeTitle(title)>>
    ELSE IF matchingStrategy = "fuzzy" THEN <<normalizeTitle(title)>>
    ELSE IF matchingStrategy = "advanced"
    THEN <<normalizeTitle(title) \o <<"|">> \o normalizeArtist(artist), normalizeTitle(title)>>
    ELSE <<>>

\* C14: generateComparisonKeys returns one key, the title in lower case and
\* trimmed, for exactTitle; one key, the normalized title, for
\* normalizedTitle and for fuzzy; two keys, the normalized title joined to the
\* normalized artist by "|" and then the normalized title, for advanced; no
\* key for another strategy name; the dimensions never change the keys
C14_KeysOfEachStrategy ==
    HasReturned("generateComparisonKeys") =>
        /\ value.returned = claimedKeys(args.title, args.artist, args.matchingStrategy)
        /\ \A dimensions \in KeyDimensions :
              generateComparisonKeys(args.title, args.artist, dimensions, args.matchingStrategy)
                 = value.returned

\* the two keys of advanced differ from the title as given and from each other
C14_Witness ==
    /\ HasReturned("generateComparisonKeys")
    /\ args.matchingStrategy = "advanced"
    /\ args.dimensions # <<>>
    /\ Len(value.returned) = 2
    /\ value.returned[2] # trim(toLowerCase(args.title))
    /\ value.returned[1] # value.returned[2] \o <<"|">> \o args.artist

\* C15: normalizeTitle is idempotent: normalizing the title it returned
\* returns that title again
C15_NormalizeTitleIdempotent ==
    HasReturned("normalizeTitle") => normalizeTitle(value.returned) = value.returned

\* C16: getSimilarity is symmetric: with its two arguments exchanged it
\* returns the same number
C16_SimilaritySymmetric ==
    HasReturned("getSimilarity") =>
        SameFraction(getSimilarity(args.str2, args.str1), value.returned)

\* two strings whose normalized forms differ in length and are neither equal
\* nor wholly different
C16_Witness ==
    /\ HasReturned("getSimilarity")
    /\ Len(normalizeString(args.str1)) < Len(normalizeString(args.str2))
    /\ Less(Zero, value.returned)
    /\ Less(value.returned, One)

\* the unit-cost Levenshtein distance: the least number of insertions,
\* deletions and substitutions of one character that turn a into b
RECURSIVE editDistance(_, _)
editDistance(a, b) ==
    IF a = <<>> THEN Len(b)
    ELSE IF b = <<>> THEN Len(a)
    ELSE IF Head(a) = Head(b) THEN editDistance(Tail(a), Tail(b))
    ELSE 1 + Min3(editDistance(Tail(a), b), editDistance(a, Tail(b)),
                  editDistance(Tail(a), Tail(b)))

\* 1 - editDistance / the longer length, of two normalized strings that differ
claimedSimilarity(norm1, norm2) ==
    [num |-> Longer(norm1, norm2) - editDistance(norm1, norm2),
     den |-> Longer(norm1, norm2)]

\* C17: getSimilarity returns 1 when both arguments are empty, 0 when one of
\* them only is empty, 1 when their normalizeString forms are the same, and
\* otherwise 1 - d / n, d being the unit-cost Levenshtein distance of the two
\* normalized forms and n the length of the longer; the result is never below
\* 0 nor above 1
C17_SimilarityByCases ==
    HasReturned("getSimilarity") =>
        /\ \E norm1 \in {normalizeString(args.str1)}, norm2 \in {normalizeString(args.str2)} :
              IF args.str1 = <<>> /\ args.str2 = <<>> THEN SameFraction(value.returned, One)
              ELSE IF args.str1 = <<>> \/ args.str2 = <<>> THEN SameFraction(value.returned, Zero)
              ELSE IF norm1 = norm2 THEN SameFraction(value.returned, One)
              ELSE SameFraction(value.returned, claimedSimilarity(norm1, norm2))
        /\ args.str1 = args.str2 => SameFraction(value.returned, One)
        /\ value.returned.den > 0
        /\ ~Less(value.returned, Zero)
        /\ ~Less(One, value.returned)

\* two strings, neither empty, whose normalized forms are one substitution
\* and one insertion apart
C17_Witness ==
    /\ HasReturned("getSimilarity")
    /\ args.str1 # <<>>
    /\ args.str2 # <<>>
    /\ editDistance(normalizeString(args.str1), normalizeString(args.str2)) = 2
    /\ Len(normalizeString(args.str1)) = 2
    /\ Len(normalizeString(args.str2)) = 3
    /\ SameFraction(value.returned, [num |-> 1, den |-> 3])

(***************************************************************************)
(* The claims about the records a resolution keeps and changes.            *)
(***************************************************************************)
\* a main row of the returned collection carries the SKU
SurvivesIn(products, sku) ==
    \E id \in mainRowsOf(heap, products) : getSKU(heap, id) = sku

\* C18: with the strategy ask, whatever the choices, one of the two records
\* of every match survives: the primary main row of the match is in the
\* returned primary collection or its secondary main row is in the returned
\* secondary collection
C18_AskKeepsOneRecordOfEachMatch ==
    (Resolved /\ AskWithHandler) =>
        \A d \in matchesOf :
            \/ SurvivesIn(result.artworkProducts, d.artworkSKU)
            \/ SurvivesIn(result.wooProducts, d.wooSKU)

\* the secondary main rows detectDuplicates reported as the secondary record
\* of a match
reportedWooRows == {d.wooRow : d \in matchesOf}

\* C19: with keepBoth a secondary main row that is not the secondary record
\* of a reported match keeps its title and its handle, and no primary row is
\* changed
C19_KeepBothChangesMatchedRowsOnly ==
    (Resolved /\ StrategyIs("keepBoth")) =>
        /\ \A id \in mainRowsOf(atCall.heap, atCall.wooProducts) \ reportedWooRows :
              /\ getTitle(heap, id) = getTitle(atCall.heap, id)
              /\ getHandle(heap, id) = getHandle(atCall.heap, id)
        /\ PrimaryUnchanged

\* the rows of the secondary collection of the call that carry a SKU chosen
\* for removal
removedWooRows ==
    {id \in rowsOf(atCall.wooProducts) : getSKU(atCall.heap, id) \in toRemoveFromWoo}

\* C27: with the strategy ask a row of the secondary collection whose SKU was
\* chosen for removal is absent from the returned collection and has the
\* fields it had at the call, whether or not its SKU was chosen for renaming
\* as well, and the call fails only when the callback rejects
C27_RemovedRowsAreNotRenamed ==
    AskWithHandler =>
        /\ Resolved =>
              \A id \in removedWooRows :
                  /\ id \notin rowsOf(result.wooProducts)
                  /\ heap[id] = atCall.heap[id]
        /\ pc = "failed" => error = ManualChoiceFailed
        /\ (pc = "awaiting" /\ settled = Len(duplicates)) => FALSE

\* a secondary SKU received 'artwork' for one match and 'both' for another,
\* and the call returned
C27_Witness ==
    /\ AskWithHandler
    /\ Resolved
    /\ \E sku \in toRemoveFromWoo \cap toRenameWoo :
          \E id \in mainRowsOf(atCall.heap, atCall.wooProducts) : getSKU(atCall.heap, id) = sku

\* C28: with the strategy ask, when the callback rejects for a match the call
\* fails with the error of the rejection, the callback has been invoked for
\* no later match, and no row of either collection has been renamed or
\* removed
C28_RejectionFailsBeforeAnyMutation ==
    (AskWithHandler /\ settled > 0 /\ pc # "awaiting" /\ ~Resolved) =>
        /\ FailedWith(ManualChoiceFailed)
        /\ Len(invoked) = settled
        /\ invoked[Len(invoked)] = settled
        /\ heap = atCall.heap
        /\ artworkProducts = atCall.artworkProducts
        /\ wooProducts = atCall.wooProducts

\* the callback rejected for a match that is not the last one
C28_Witness ==
    /\ AskWithHandler
    /\ FailedWith(ManualChoiceFailed)
    /\ settled < Len(duplicates)
    /\ Len(invoked) = settled

\* the SKUs the strategy of the call removes from the secondary collection
removedWooSKUs ==
    IF StrategyIs("preferArtwork") THEN {d.wooSKU : d \in matchesOf}
    ELSE IF StrategyIs("ask") THEN toRemoveFromWoo
    ELSE {}

\* the SKUs the strategy of the call removes from the primary collection
removedArtworkSKUs ==
    IF StrategyIs("preferWoo") THEN {d.artworkSKU : d \in matchesOf}
    ELSE IF StrategyIs("ask") THEN toRemoveFromArtwork
    ELSE {}

\* the rows of the collection that carry one of the SKUs
rowsWithSKU(products, skus) ==
    {id \in rowsOf(products) : getSKU(atCall.heap, id) # <<>> /\ getSKU(atCall.heap, id) \in skus}

\* C29 as stated: resolveDuplicates changes the membership of the collections
\* it was given and returns them: the returned collections are the
\* collections of the caller, and the rows a strategy removes are no longer
\* in the collections of the caller
C29_RemovesFromTheCollectionsPassedIn ==
    Resolved =>
        /\ result.artworkProducts = artworkProducts
        /\ result.wooProducts = wooProducts
        /\ rowsWithSKU(wooProducts, removedWooSKUs) = {}
        /\ rowsWithSKU(artworkProducts, removedArtworkSKUs) = {}

\* C29: resolveDuplicates leaves the membership and the order of the two
\* collections it was given as they were; each returned collection holds, in
\* the order of the collection given, the rows of it that carry no SKU the
\* strategy removes, and these rows are the records of the caller
C29_RemovalsAreInTheReturnedCollectionsOnly ==
    Resolved =>
        /\ artworkProducts = atCall.artworkProducts
        /\ wooProducts = atCall.wooProducts
        /\ rowsOf(result.wooProducts)
              = rowsOf(wooProducts) \ rowsWithSKU(wooProducts, removedWooSKUs)
        /\ rowsOf(result.artworkProducts)
              = rowsOf(artworkProducts) \ rowsWithSKU(artworkProducts, removedArtworkSKUs)
        /\ InOrderOf(result.wooProducts, wooProducts)
        /\ InOrderOf(result.artworkProducts, artworkProducts)

\* a call returned without a row that the collection of the caller holds
C29_Witness ==
    /\ Resolved
    /\ rowsWithSKU(wooProducts, removedWooSKUs) # {}
    /\ Len(result.wooProducts) < Len(wooProducts)
    /\ result.wooProducts # <<>>

(***************************************************************************)
(* The claims about the registry of HandleGeneratorService.                *)
(***************************************************************************)
\* the base handle followed by the suffix of the counter k, the base handle
\* itself for k = 0
suffixed(baseHandle, k) ==
    IF k = 0 THEN baseHandle ELSE baseHandle \o <<"-">> \o toString(k)

\* C30: generateUniqueHandle returns a handle that the registry did not hold
\* at the call and holds afterwards, together with every handle it held; the
\* handle is the base handle or the base handle with a counter no greater
\* than the size of the registry, so the search for the suffix ends; and
\* loadExistingHandles takes nothing out of the registry, so that the registry
\* holds every handle returned or loaded since the last clearUsedHandles
C30_ReturnedHandlesAreNew ==
    /\ HasReturned("generateUniqueHandle") =>
          /\ value.returned \notin args.usedHandles
          /\ usedHandles = args.usedHandles \cup {value.returned}
          /\ \E baseHandle \in {baseHandleOf(HandleNormalizeTitle(args.title), args.title,
                                             args.sku, args.sourceType, args.now)} :
                \E k \in 0..Cardinality(args.usedHandles) :
                    /\ value.returned = suffixed(baseHandle, k)
                    /\ \A j \in 0..(k - 1) : suffixed(baseHandle, j) \in args.usedHandles
    /\ HasReturned("loadExistingHandles") =>
          /\ args.usedHandles \subseteq usedHandles
          /\ ~args.rejects =>
                \A i \in 1..Len(args.existingProducts) :
                    args.existingProducts[i].handle # <<>> =>
                        args.existingProducts[i].handle \in usedHandles
    /\ HasReturned("clearUsedHandles") => usedHandles = {}

\* a call that went twice round the loop of makeUnique, on a registry that
\* holds a loaded handle and a returned one
C30_Witness ==
    /\ HasReturned("generateUniqueHandle")
    /\ Cardinality(args.usedHandles) >= 2
    /\ \E baseHandle \in args.usedHandles :
          /\ suffixed(baseHandle, 1) \in args.usedHandles
          /\ value.returned = suffixed(baseHandle, 2)

====
